---------------------------- MODULE Spec2Model ----------------------------
(***************************************************************************)
(* chrome-har: harFromMessages (src/index.js) as a state machine.          *)
(*                                                                         *)
(* One run of harFromMessages is: the message list is fixed (Init), the    *)
(* main loop handles messages[pos] with one action per `case` of the       *)
(* switch, and Finalize is the code after the loop (filters, page          *)
(* renumbering, the returned report).  A handler that throws ends the run  *)
(* in pc = "thrown" without a report.                                      *)
(*                                                                         *)
(* Encodings.  JavaScript `undefined` is Undef for strings, NoNum for      *)
(* numbers and None for objects.  Times are integers.  uuid() is a fresh   *)
(* number chosen nondeterministically.  ISO date strings are represented   *)
(* by the epoch number they are formatted from.                            *)
(***************************************************************************)
EXTENDS Integers, Sequences, FiniteSets, TLC

VARIABLES
    messages,               \* the input array (its params are mutated by the preflight recovery)
    options,                \* Object.assign({}, defaultOptions, options)
    pos,                    \* currentPosition + 1
    pc,                     \* "loop" | "compress" | "done" | "thrown"
    pages, entries, entriesWithoutPage, responsesWithoutPage, paramsWithoutPage,
    currentPageId,
    ignoredRequests, rootFrameMappings, loaders, recognizedOptionsCalls,
    responseExtraInfo,      \* request id -> params of Network.responseReceivedExtraInfo
    requestExtraInfo,       \* request id -> params of Network.requestWillBeSentExtraInfo
    grandParentId,          \* the loop variable of the Page.frameAttached while loop
    lastUuid,               \* the last value uuid() returned
    report,                 \* the returned {log: {pages, entries}}
    run,                    \* 1 in the first call, 2 in a second call on the same message objects
    firstReport             \* the report of the first call

vars == <<messages, options, pos, pc, pages, entries, entriesWithoutPage,
          responsesWithoutPage, paramsWithoutPage, currentPageId, ignoredRequests,
          rootFrameMappings, loaders, recognizedOptionsCalls, responseExtraInfo,
          requestExtraInfo, grandParentId, lastUuid, report, run, firstReport>>

-----------------------------------------------------------------------------
(* JavaScript values *)

Undef == "undefined"

NoNum == -999

\* !x for a number-valued x
FalsyNum(x) == x \in {NoNum, 0}

None == [undefined |-> TRUE]

IsNone(o) == o = None

\* !s for a string-valued s
FalsyStr(s) == s \in {Undef, ""}

\* a || b for string-valued a, b
OrStr(a, b) == IF FalsyStr(a) THEN b ELSE a

\* Map.get(k)
MapGet(map, k, default) == IF k \in DOMAIN map THEN map[k] ELSE default

\* Map.set(k, v)
MapSet(map, k, v) == [x \in DOMAIN map \cup {k} |-> IF x = k THEN v ELSE map[x]]

EmptyMap == [x \in {} |-> None]

\* the least element of a non-empty set of numbers
Least(S) == CHOOSE i \in S : \A j \in S : i <= j

\* Array.prototype.slice(start, end) with JavaScript's handling of a negative start
\* (counted from the end of the array) and of out-of-range indices; 0-based arguments.
JsSlice(seq, start, end) ==
    LET len  == Len(seq)
        from == IF start < 0 THEN (IF len + start < 0 THEN 0 ELSE len + start)
                ELSE (IF start > len THEN len ELSE start)
        to   == IF end < 0 THEN (IF len + end < 0 THEN 0 ELSE len + end)
                ELSE (IF end > len THEN len ELSE end)
    IN  IF to <= from THEN <<>> ELSE SubSeq(seq, from + 1, to)

\* Array.prototype.reverse
Reverse(seq) == [i \in 1..Len(seq) |-> seq[Len(seq) + 1 - i]]

-----------------------------------------------------------------------------
(* Event payloads (the fields the handlers read) *)

\* a headers object of the protocol is the sequence of its <<name, value>>
\* properties; every request and every response of the model carries these
RequestHeaders == <<<<"Accept", "*/*">>, <<"Cookie", "sid=1">>>>

ResponseHeaders == <<<<"Content-Type", "text/html">>, <<"Set-Cookie", "sid=1">>>>

\* a response-like payload: params.response of Network.responseReceived and
\* params.redirectResponse of Network.requestWillBeSent; timing is None when the
\* payload carries no timing object
ResponsePayload(url, status, timing, fromCache) ==
    [url |-> url, status |-> status, timing |-> timing, fromCache |-> fromCache,
     headers |-> ResponseHeaders]

Timing(requestTime, receiveHeadersEnd) ==
    [requestTime |-> requestTime, receiveHeadersEnd |-> receiveHeadersEnd]

FrameNavigatedMsg(id, parentId, loaderId, url) ==
    [method |-> "Page.frameNavigated",
     params |-> [frame |-> [id |-> id, parentId |-> parentId, loaderId |-> loaderId, url |-> url]]]

NavigatedWithinDocumentMsg(frameId, url) ==
    [method |-> "Page.navigatedWithinDocument", params |-> [frameId |-> frameId, url |-> url]]

RequestWillBeSentMsg(requestId, loaderId, frameId, url, reqMethod, initiatorType, documentURL, redirectResponse, timestamp) ==
    [method |-> "Network.requestWillBeSent",
     params |-> [requestId |-> requestId, loaderId |-> loaderId, frameId |-> frameId,
                 documentURL |-> documentURL,
                 request |-> [url |-> url, method |-> reqMethod, initialPriority |-> "High",
                             headers |-> RequestHeaders],
                 initiator |-> [type |-> initiatorType],
                 redirectResponse |-> redirectResponse,
                 timestamp |-> timestamp, wallTime |-> 1000 + timestamp]]

ResponseReceivedMsg(requestId, frameId, response) ==
    [method |-> "Network.responseReceived",
     params |-> [requestId |-> requestId, loaderId |-> requestId, frameId |-> frameId,
                 response |-> response]]

RequestServedFromCacheMsg(requestId) ==
    [method |-> "Network.requestServedFromCache", params |-> [requestId |-> requestId]]

LoadEventFiredMsg(timestamp) ==
    [method |-> "Page.loadEventFired", params |-> [timestamp |-> timestamp]]

DomContentEventFiredMsg(timestamp) ==
    [method |-> "Page.domContentEventFired", params |-> [timestamp |-> timestamp]]

FrameAttachedMsg(frameId, parentFrameId) ==
    [method |-> "Page.frameAttached",
     params |-> [frameId |-> frameId, parentFrameId |-> parentFrameId]]

ResourceChangedPriorityMsg(requestId, newPriority) ==
    [method |-> "Network.resourceChangedPriority",
     params |-> [requestId |-> requestId, newPriority |-> newPriority]]

DataReceivedMsg(requestId, dataLength) ==
    [method |-> "Network.dataReceived",
     params |-> [requestId |-> requestId, dataLength |-> dataLength]]

LoadingFinishedMsg(requestId, timestamp, encodedDataLength) ==
    [method |-> "Network.loadingFinished",
     params |-> [requestId |-> requestId, timestamp |-> timestamp,
                 encodedDataLength |-> encodedDataLength]]

LoadingFailedMsg(requestId, errorText, blockedReason) ==
    [method |-> "Network.loadingFailed",
     params |-> [requestId |-> requestId, errorText |-> errorText,
                 blockedReason |-> blockedReason]]

\* a method outside the Page.* and Network.* families
\* info: the record of the optional properties headers and associatedCookies
RequestWillBeSentExtraInfoMsg(requestId, info) ==
    [method |-> "Network.requestWillBeSentExtraInfo",
     params |-> [k \in DOMAIN info \cup {"requestId"} |->
                    IF k = "requestId" THEN requestId ELSE info[k]]]

\* info: the record of the optional properties headers and blockedCookies
ResponseReceivedExtraInfoMsg(requestId, info) ==
    [method |-> "Network.responseReceivedExtraInfo",
     params |-> [k \in DOMAIN info \cup {"requestId"} |->
                    IF k = "requestId" THEN requestId ELSE info[k]]]

OtherMsg(method) == [method |-> method, params |-> None]

-----------------------------------------------------------------------------
(* src/lib/util.js *)

\* /^https?:/.test(url)
isSupportedProtocol(url) ==
    \/ Len(url) >= 5 /\ SubSeq(url, 1, 5) = "http:"
    \/ Len(url) >= 6 /\ SubSeq(url, 1, 6) = "https:"

\* version.toLowerCase().startsWith('http/1.'); versions are written in lower case
isHttp1x(version) == Len(version) >= 7 /\ SubSeq(version, 1, 7) = "http/1."

\* Numbers of seconds and of milliseconds are integers that count ten-thousandths
\* (of a second, of a millisecond); Thousandth is 0.001 in that unit, the
\* precision of toFixed(3) and of Math.floor(1000 * x) / 1000
Thousandth == 10

\* the result of arithmetic on undefined
NaN == -1000000

\* Number(Number(time).toFixed(3)): rounded to the nearest thousandth, halves
\* away from zero
formatMillis(time) ==
    IF time = NaN THEN NaN
    ELSE IF time >= 0 THEN ((time + Thousandth \div 2) \div Thousandth) * Thousandth
    ELSE -(((-time + Thousandth \div 2) \div Thousandth) * Thousandth)

\* Math.floor(1000 * x) / 1000
FloorThousandth(x) == IF x = NaN THEN NaN ELSE (x \div Thousandth) * Thousandth

blockedResponse ==
    [status |-> 0, httpVersion |-> "", headers |-> <<>>, cookies |-> <<>>,
     contentSize |-> 0, compression |-> NoNum,
     headersSize |-> -1, bodySize |-> -1, _transferSize |-> 0, _error |-> Undef]

blockedTimings ==
    [blocked |-> -1, dns |-> -1, connect |-> -1, send |-> -1, wait |-> -1,
     receive |-> -1, ssl |-> -1]

\* wait is 0.01 ms; a difference with undefined is NaN
cachedTimings(willBeSent, loadingFinished) ==
    [blocked |-> -1, dns |-> -1, connect |-> -1, send |-> 0, wait |-> 10 * Thousandth,
     receive |-> IF willBeSent = NoNum THEN NaN
                 ELSE formatMillis(loadingFinished - willBeSent) * 1000,
     ssl |-> -1]

-----------------------------------------------------------------------------
(* src/lib/headers.js and src/lib/cookies.js are not among the sources: they    *)
(* are modelled from the specification (section 1: "cookie/header string        *)
(* micro-parsing ... only their input/output contracts matter"; section 2,      *)
(* component 1: "cookie-header parsing"; section 3: an entry's request and      *)
(* response carry "headers, cookies").                                          *)

\* the HAR list of {name, value} of a headers object
parseHeaders(headers) ==
    [i \in 1..Len(headers) |-> [name |-> headers[i][1], value |-> headers[i][2]]]

\* the value of the named header, undefined when the object has none
getHeaderValue(headers, name) ==
    LET hits == {i \in 1..Len(headers) : headers[i][1] = name}
    IN  IF hits = {} THEN Undef ELSE headers[Least(hits)][2]

\* one cookie of the form name=value
ParseCookie(line) ==
    LET eq == Least({i \in 1..Len(line) : SubSeq(line, i, i) = "="})
    IN  [name |-> SubSeq(line, 1, eq - 1), value |-> SubSeq(line, eq + 1, Len(line))]

parseRequestCookies(cookieHeader) ==
    IF FalsyStr(cookieHeader) THEN <<>> ELSE <<ParseCookie(cookieHeader)>>

parseResponseCookies(cookieHeader) ==
    IF FalsyStr(cookieHeader) THEN <<>> ELSE <<ParseCookie(cookieHeader)>>

\* a cookie object of the protocol as a HAR cookie: the protocol's own fields
\* (here its priority) are not carried over
formatCookie(cookie) == [name |-> cookie.name, value |-> cookie.value]

-----------------------------------------------------------------------------
(* Extra info: src/index.js lines 777-818 *)

\* o.prop is not undefined
Has(o, prop) == prop \in DOMAIN o

\* o.prop = v, on an object that may not have the property yet
SetProp(o, prop, v) == [k \in DOMAIN o \cup {prop} |-> IF k = prop THEN v ELSE o[k]]

\* lines 783-785; every associated cookie of the model has its blockedReasons
\* list, so the catch of line 786 is never entered
AllowedCookies(associatedCookies) ==
    LET allowed == SelectSeq(associatedCookies, LAMBDA c : Len(c.blockedReasons) = 0)
    IN  [i \in 1..Len(allowed) |-> formatCookie(allowed[i].cookie)]

\* lines 777-790: writes the headers and cookies properties of its first argument
addRequestExtraInfo(request, info) ==
    LET withHeaders == IF Has(info, "headers")
                       THEN SetProp(request, "headers", parseHeaders(info.headers))
                       ELSE request
    IN  IF Has(info, "associatedCookies")
        THEN SetProp(withHeaders, "cookies", AllowedCookies(info.associatedCookies))
        ELSE withHeaders

\* lines 799-811: the callback of blockedCookies.find for one cookie name
BlocksName(blockedCookie, name) ==
    IF Has(blockedCookie, "cookie") THEN blockedCookie.cookie.name = name
    ELSE IF Has(blockedCookie, "cookieLine")
    THEN LET parsed == parseResponseCookies(blockedCookie.cookieLine)
         IN  Len(parsed) > 0 /\ parsed[1].name = name
    ELSE FALSE

\* lines 792-818
addResponseExtraInfo(response, info) ==
    LET withHeaders == IF Has(info, "headers")
                       THEN SetProp(response, "headers", parseHeaders(info.headers))
                       ELSE response
    IN  IF Has(info, "blockedCookies")
        THEN [withHeaders EXCEPT
                 !.cookies = SelectSeq(@, LAMBDA c :
                                 ~\E b \in 1..Len(info.blockedCookies) :
                                     BlocksName(info.blockedCookies[b], c.name))]
        ELSE withHeaders

\* lines 282-284: the map is asked for request.requestId, and the request object
\* of the protocol has no requestId (the id is params.requestId); the call is
\* given `request`, the protocol's object, and not `req`, the object the entry
\* gets. Every extra-info event of the model has a request id, so the map never
\* has the key undefined, and `req` is what it was in either branch.
DeferredRequestExtraInfo(req, request) ==
    LET key == IF Has(request, "requestId") THEN request.requestId ELSE Undef
    IN  IF key \in DOMAIN requestExtraInfo THEN req ELSE req

-----------------------------------------------------------------------------
(* src/lib/entryFromResponse.js is not among the sources: the response          *)
(* populator is modelled from the specification (section 2, component 3):       *)
(* "given a raw response-like payload and a target entry, fills in status,      *)
(* headers, cookies, content metadata, and timing breakdown".                   *)

\* "unexpected population error ... a payload shape violation" (section 5,
\* case e): the populator raises on a payload that has no headers object
populateEntryFromResponseThrows(response) == ~Has(response, "headers")

populateEntryFromResponse(entry, response) ==
    [entry EXCEPT
        !.response = [status |-> response.status, httpVersion |-> "http/1.1",
                      headers |-> parseHeaders(response.headers),
                      cookies |-> parseResponseCookies(
                                      getHeaderValue(response.headers, "Set-Cookie")),
                      contentSize |-> 0, compression |-> NoNum,
                      headersSize |-> -1, bodySize |-> -1, _transferSize |-> 0,
                      _error |-> Undef],
        !.timings  = IF IsNone(response.timing) THEN blockedTimings
                     ELSE [blocked |-> -1, dns |-> -1, connect |-> -1, send |-> 0,
                           wait |-> 0, receive |-> 0, ssl |-> -1],
        !._requestTime = IF IsNone(response.timing) THEN NoNum
                         ELSE response.timing.requestTime,
        !.__receiveHeadersEnd = IF IsNone(response.timing) THEN NoNum
                                ELSE response.timing.receiveHeadersEnd,
        !._fromCache = response.fromCache,
        !.request.httpVersion = "http/1.1"]

-----------------------------------------------------------------------------
(* Pages and entries *)

\* urlParser.format(urlParser.parse(url)): the URLs of this model are already in
\* the form Node's url module prints, so re-serialising returns them unchanged
formatUrl(url) == url

\* dayjs.unix(secs).toISOString(), represented by secs; it throws a RangeError
\* when secs is undefined or NaN (see IsoThrows)
toISOString(secs) == secs

IsoThrows(secs) == secs = NoNum

\* startedDateTime: '' (no date yet)
NoDate == 0

NewPage(id, title, loaderId, frameId) ==
    [id |-> id, startedDateTime |-> NoDate, title |-> title,
     pageTimings |-> [onLoad |-> NoNum, onContentLoad |-> NoNum],
     __loaderId |-> loaderId, __frameId |-> frameId,
     __timestamp |-> NoNum, __wallTime |-> NoNum]

addFromFirstRequest(page, params) ==
    LET p1 == IF FalsyNum(page.__timestamp)
              THEN [page EXCEPT !.__wallTime = params.wallTime,
                                !.__timestamp = params.timestamp,
                                !.startedDateTime = toISOString(params.wallTime),
                                !.title = IF page.title = "" THEN params.request.url
                                          ELSE page.title]
              ELSE page
    IN  IF FalsyStr(p1.__loaderId) /\ ~FalsyStr(params.loaderId)
        THEN [p1 EXCEPT !.__loaderId = params.loaderId]
        ELSE p1

\* options.wallTimeHelper.getWallTimeFromTimestamp: the default returns undefined
getWallTimeFromTimestamp(helper, timestamp) ==
    IF helper = "default" THEN NoNum ELSE 1000 + timestamp

\* addFromFirstResponse reads response.timing.requestTime: a TypeError when the
\* response carries no timing object
addFromFirstResponseThrows(params) == IsNone(params.response.timing)

addFromFirstResponse(page, params, helper) ==
    LET requestTime == params.response.timing.requestTime
        p1 == IF FalsyNum(page.__timestamp)
              THEN [page EXCEPT !.__timestamp = requestTime] ELSE page
        wallTime == getWallTimeFromTimestamp(helper, requestTime)
        p2 == IF ~FalsyNum(wallTime)
              THEN [p1 EXCEPT !.__wallTime = wallTime,
                              !.startedDateTime = toISOString(wallTime)]
              ELSE p1
        p3 == [p2 EXCEPT !.title = params.response.url]
    IN  IF FalsyStr(p3.__loaderId) /\ ~FalsyStr(params.loaderId)
        THEN [p3 EXCEPT !.__loaderId = params.loaderId]
        ELSE p3

NewEntry(requestId, frameId, pageref, reqMethod, url, priority, sentTime, wallTime, startedDateTime, initiatorType) ==
    [_requestId |-> requestId, __frameId |-> frameId, pageref |-> pageref,
     __requestWillBeSentTime |-> sentTime, __wallTime |-> wallTime,
     startedDateTime |-> startedDateTime,
     request |-> [method |-> reqMethod, url |-> url, httpVersion |-> Undef,
                  cookies |-> <<>>, headers |-> <<>>],
     response |-> None, timings |-> None, _requestTime |-> NoNum,
     __receiveHeadersEnd |-> NoNum, _fromCache |-> Undef, time |-> 0,
     cache |-> [beforeRequest |-> FALSE], __servedFromCache |-> FALSE,
     _initialPriority |-> priority, _priority |-> priority,
     _initiator_type |-> initiatorType,
     _transferSize |-> NoNum, serverIPAddress |-> Undef, comment |-> Undef]

\* src/lib/syntheticEventsCreator.js
createSyntheticEventFromFrameNavigated(page, frameParams) ==
    NewEntry(frameParams.frame.loaderId, frameParams.frame.id, page.id, "GET",
             formatUrl(frameParams.frame.url), "Very High", NoNum, NoNum,
             IF FalsyNum(page.startedDateTime) THEN NoDate ELSE page.startedDateTime,
             Undef)

createSyntheticEventFromResponse(page, responseParams) ==
    NewEntry(responseParams.requestId, responseParams.frameId, page.id, "GET",
             formatUrl(responseParams.response.url), "Very High",
             IF IsNone(responseParams.response.timing) THEN NoNum
             ELSE responseParams.response.timing.requestTime,
             page.__wallTime,
             IF FalsyNum(page.startedDateTime) THEN NoDate ELSE page.startedDateTime,
             Undef)

\* a find whose predicate accepts every entry
FindEntryAny(list, requestId) == IF Len(list) = 0 THEN 0 ELSE 1

\* entries.find(entry => entry._requestId === requestId): its index, 0 when none
FindEntry(list, requestId) ==
    LET hits == {i \in 1..Len(list) : list[i]._requestId = requestId}
    IN  IF hits = {} THEN 0 ELSE Least(hits)

\* the for loop of attachPagelessRequests over responsesWithoutPage
RECURSIVE ReplayResponses(_, _)
ReplayResponses(list, responses) ==
    IF responses = <<>> THEN list
    ELSE LET params == Head(responses)
             i == FindEntry(list, params.requestId)
         IN  ReplayResponses(
                 IF i = 0 THEN list
                 ELSE [list EXCEPT ![i] = populateEntryFromResponse(@, params.response)],
                 Tail(responses))

\* the replay calls the populator outside any try: its error leaves
\* harFromMessages
ReplayThrows(list) ==
    \E k \in 1..Len(responsesWithoutPage) :
        /\ FindEntry(list \o entriesWithoutPage, responsesWithoutPage[k].requestId) # 0
        /\ populateEntryFromResponseThrows(responsesWithoutPage[k].response)

\* attachPagelessRequests(page): the page and the entry list it leaves
AttachedPage(page) ==
    IF Len(entriesWithoutPage) > 0 THEN addFromFirstRequest(page, paramsWithoutPage[1])
    ELSE page

\* an adoption that forgets to concatenate the buffered entries
AttachedEntriesDropsBuffered(page, list) ==
    ReplayResponses(list, responsesWithoutPage)

\* an adoption that forgets the buffered responses
AttachedEntriesNoReplay(page, list) ==
    list \o [i \in 1..Len(entriesWithoutPage) |->
                [entriesWithoutPage[i] EXCEPT !.pageref = page.id]]

\* an adoption that leaves the buffered entries without their page
AttachedEntriesNoPageref(page, list) ==
    ReplayResponses(list \o entriesWithoutPage, responsesWithoutPage)

AttachedEntries(page, list) ==
    LET adopted == [i \in 1..Len(entriesWithoutPage) |->
                        [entriesWithoutPage[i] EXCEPT !.pageref = page.id]]
    IN  ReplayResponses(list \o adopted, responsesWithoutPage)

-----------------------------------------------------------------------------
(* The main loop: one action per case of the switch *)

\* uuid(): a fresh identifier; which one is not determined by the input
uuid(last) == {last + 1, last + 2}

At(method) == pc = "loop" /\ pos <= Len(messages) /\ messages[pos].method = method

\* state the main loop never writes
callVars == <<options, report, run, firstReport>>

pageVars == <<pages, currentPageId, lastUuid>>

bufferVars == <<entriesWithoutPage, responsesWithoutPage, paramsWithoutPage>>

extraVars == <<responseExtraInfo, requestExtraInfo>>

indexVars == <<ignoredRequests, rootFrameMappings, loaders, recognizedOptionsCalls,
               grandParentId, extraVars>>

\* `continue` / `break`: on to the next message with nothing written
Skip ==
    /\ pos' = pos + 1
    /\ UNCHANGED <<messages, pc, entries, pageVars, bufferVars, indexVars, callVars>>

\* an exception leaves harFromMessages: no report
Throw ==
    /\ pc' = "thrown"
    /\ UNCHANGED <<messages, pos, entries, pageVars, bufferVars, indexVars, callVars>>

\* line 159 reads prevRoot.loaderId, a property no page is ever given
PageLoaderIdProperty(page) == Undef

\* lines 158-161: the earlier page without a root frame id is marked "removed"
MarkPrevRoot(list) ==
    LET roots == {i \in 1..Len(list) : list[i].__frameId = Undef}
    IN  IF roots # {} /\ ~FalsyStr(PageLoaderIdProperty(list[Least(roots)]))
        THEN [list EXCEPT ![Least(roots)].__frameId = "removed"]
        ELSE list

\* a check against `page.loaderId`, a property no page has
AlreadySeenByLoaderIdProperty(list, loaderId) ==
    \E i \in 1..Len(list) : PageLoaderIdProperty(list[i]) = loaderId

\* lines 154-156: a page already exists for this loader id
AlreadySeenNavigation(list, loaderId) ==
    \E i \in 1..Len(list) : list[i].__loaderId = loaderId

\* lines 181-182: the Network.responseReceived for the loader id among the first
\* FirstWindow messages of the whole input; 0 when there is none
FirstWindow == 10

\* a recovery that searches the whole input instead of its first messages
ResponseInfoAnywhere(loaderId) ==
    LET hits == {i \in 1..Len(messages) :
                    /\ messages[i].method = "Network.responseReceived"
                    /\ messages[i].params.requestId = loaderId}
    IN  IF hits = {} THEN 0 ELSE Least(hits)

ResponseInfo(loaderId) ==
    LET window == JsSlice(messages, 0, FirstWindow)
        hits == {i \in 1..Len(window) :
                    /\ window[i].method = "Network.responseReceived"
                    /\ window[i].params.requestId = loaderId}
    IN  IF hits = {} THEN 0 ELSE Least(hits)

FrameNavigated ==
    /\ At("Page.frameNavigated")
    /\ LET params == messages[pos].params
           frame == params.frame
           info == ResponseInfo(frame.loaderId)
       IN  IF ~FalsyStr(frame.parentId) \/ AlreadySeenNavigation(pages, frame.loaderId)
           THEN Skip
           ELSE IF frame.loaderId \notin DOMAIN loaders /\ info # 0
                   /\ addFromFirstResponseThrows(messages[info].params)
           THEN Throw
           ELSE IF ReplayThrows(entries)
           THEN Throw
           ELSE \E id \in uuid(lastUuid) :
                LET page0 == NewPage(id, frame.url, frame.loaderId, frame.id)
                    page1 == IF frame.loaderId \in DOMAIN loaders
                             THEN addFromFirstRequest(page0, loaders[frame.loaderId])
                             ELSE IF info # 0
                             THEN addFromFirstResponse(page0, messages[info].params,
                                                       options.wallTimeHelper)
                             ELSE page0
                    entries1 == IF frame.loaderId \in DOMAIN loaders THEN entries
                                ELSE IF info # 0
                                THEN Append(entries, createSyntheticEventFromResponse(
                                                        page1, messages[info].params))
                                ELSE Append(entries, createSyntheticEventFromFrameNavigated(
                                                        page1, params))
                IN  /\ currentPageId' = id
                    /\ lastUuid' = id
                    /\ pages' = Append(MarkPrevRoot(pages), AttachedPage(page1))
                    /\ entries' = AttachedEntries(page1, entries1)
                    /\ entriesWithoutPage' = <<>>
                    /\ paramsWithoutPage' = <<>>
                    /\ responsesWithoutPage' = <<>>
                    /\ pos' = pos + 1
                    /\ UNCHANGED <<messages, pc, indexVars, callVars>>

\* lines 206-208: a page already exists for the resolved root frame
PageForFrame(list, frameId) ==
    LET hits == {i \in 1..Len(list) : list[i].__frameId = frameId}
    IN  IF hits = {} THEN 0 ELSE Least(hits)

NavigatedWithinDocument ==
    /\ At("Page.navigatedWithinDocument")
    /\ LET params == messages[pos].params
           rootFrame == OrStr(MapGet(rootFrameMappings, params.frameId, Undef), params.frameId)
       IN  IF PageForFrame(pages, rootFrame) # 0
           THEN Skip
           ELSE IF ReplayThrows(entries)
           THEN Throw
           ELSE \E id \in uuid(lastUuid) :
                LET page == NewPage(id, params.url, Undef, rootFrame)
                IN  /\ currentPageId' = id
                    /\ lastUuid' = id
                    /\ pages' = Append(pages, AttachedPage(page))
                    /\ entries' = AttachedEntries(page, entries)
                    /\ entriesWithoutPage' = <<>>
                    /\ paramsWithoutPage' = <<>>
                    /\ responsesWithoutPage' = <<>>
                    /\ pos' = pos + 1
                    /\ UNCHANGED <<messages, pc, indexVars, callVars>>

\* lines 235-247: the preflight recovery looks back over the LookBack messages
\* before the current position (0-based `position`), latest first; None when no
\* non-OPTIONS request for the document URL is among them
LookBack == 50

PreflightInitiator(msgs, position, documentURL) ==
    LET latest == Reverse(JsSlice(msgs, position - LookBack, position))
        hits == {i \in 1..Len(latest) :
                    /\ latest[i].method = "Network.requestWillBeSent"
                    /\ latest[i].params.request.method # "OPTIONS"
                    /\ latest[i].params.request.url = documentURL}
    IN  IF hits = {} THEN None ELSE latest[Least(hits)]

IsPreflight(params) ==
    /\ params.loaderId = ""
    /\ params.request.method = "OPTIONS"
    /\ params.initiator.type = "other"

\* lines 333-351: the previous leg of a redirect is renamed and given the
\* redirect payload as its response
RedirectPrevious(list, params) ==
    LET prev == IF IsNone(params.redirectResponse) THEN 0
                ELSE FindEntry(list, params.requestId)
    IN  IF prev = 0 THEN list
        ELSE [list EXCEPT ![prev] = populateEntryFromResponse(
                                        [@ EXCEPT !._requestId = @ \o "r"],
                                        params.redirectResponse)]

\* lines 337-343 call the populator outside any try
RedirectThrows(list, params) ==
    /\ ~IsNone(params.redirectResponse)
    /\ FindEntry(list, params.requestId) # 0
    /\ populateEntryFromResponseThrows(params.redirectResponse)

RequestWillBeSent ==
    /\ At("Network.requestWillBeSent")
    /\ LET params0 == messages[pos].params
           request == params0.request
           initiator == IF IsPreflight(params0)
                        THEN PreflightInitiator(messages, pos - 1, params0.documentURL)
                        ELSE None
           params == IF IsNone(initiator) THEN params0
                     ELSE [params0 EXCEPT !.loaderId = initiator.params.loaderId,
                                          !.frameId = initiator.params.frameId]
           cookieHeader == getHeaderValue(request.headers, "Cookie")
           created == NewEntry(params.requestId, params.frameId, currentPageId,
                               request.method, formatUrl(request.url),
                               request.initialPriority, params.timestamp, params.wallTime,
                               NoDate, params.initiator.type)
           entry == [created EXCEPT
                        !.request = DeferredRequestExtraInfo(
                                        [@ EXCEPT !.cookies = parseRequestCookies(cookieHeader),
                                                  !.headers = parseHeaders(request.headers)],
                                        request)]
           entries1 == RedirectPrevious(entries, params)
           page == IF Len(pages) = 0 THEN None
                   ELSE addFromFirstRequest(pages[Len(pages)], params)
           entrySecs == IF Len(pages) = 0 \/ page.__wallTime = NoNum
                           \/ page.__timestamp = NoNum
                        THEN NoNum
                        ELSE page.__wallTime + (params.timestamp - page.__timestamp)
       IN  IF ~isSupportedProtocol(request.url)
           THEN /\ ignoredRequests' = ignoredRequests \cup {params0.requestId}
                /\ pos' = pos + 1
                /\ UNCHANGED <<messages, pc, entries, pageVars, bufferVars, rootFrameMappings,
                               loaders, recognizedOptionsCalls, grandParentId, extraVars, callVars>>
           ELSE /\ messages' = [messages EXCEPT ![pos].params = params]
                /\ recognizedOptionsCalls' =
                      IF IsNone(initiator) THEN recognizedOptionsCalls
                      ELSE MapSet(recognizedOptionsCalls, params.requestId,
                                  [loaderId |-> params.loaderId, frameId |-> params.frameId])
                /\ loaders' = IF params.loaderId \in DOMAIN loaders THEN loaders
                              ELSE MapSet(loaders, params.loaderId, params)
                /\ UNCHANGED <<ignoredRequests, rootFrameMappings, grandParentId,
                               extraVars, responsesWithoutPage, currentPageId, lastUuid,
                               callVars>>
                /\ IF RedirectThrows(entries, params)
                   THEN /\ pc' = "thrown"
                        /\ UNCHANGED <<pos, entries, pages, entriesWithoutPage,
                                       paramsWithoutPage>>
                   ELSE IF Len(pages) = 0
                   THEN /\ entries' = entries1
                        /\ entriesWithoutPage' = Append(entriesWithoutPage, entry)
                        /\ paramsWithoutPage' = Append(paramsWithoutPage, params)
                        /\ pos' = pos + 1
                        /\ UNCHANGED <<pc, pages>>
                   ELSE IF IsoThrows(entrySecs)
                   THEN /\ pc' = "thrown"
                        /\ UNCHANGED <<pos, entries, pages, entriesWithoutPage,
                                       paramsWithoutPage>>
                   ELSE /\ entries' = Append(entries1,
                                [entry EXCEPT !.startedDateTime = toISOString(entrySecs)])
                        /\ pages' = [pages EXCEPT ![Len(pages)] = page]
                        /\ pos' = pos + 1
                        /\ UNCHANGED <<pc, entriesWithoutPage, paramsWithoutPage>>

\* the updates shared by the handlers that only rewrite the attached entry list
EntriesOnly(list) ==
    /\ entries' = list
    /\ pos' = pos + 1
    /\ UNCHANGED <<messages, pc, pageVars, bufferVars, indexVars, callVars>>

RequestServedFromCache ==
    /\ At("Network.requestServedFromCache")
    /\ LET params == messages[pos].params
           i == FindEntry(entries, params.requestId)
       IN  IF Len(pages) < 1 \/ params.requestId \in ignoredRequests \/ i = 0
           THEN Skip
           ELSE EntriesOnly([entries EXCEPT ![i].__servedFromCache = TRUE,
                                            ![i].cache.beforeRequest = TRUE])

\* line 441-442: the frame id a response is resolved by
ResponseFrameId(params) ==
    OrStr(OrStr(MapGet(rootFrameMappings, params.frameId, Undef), params.frameId),
          MapGet(recognizedOptionsCalls, params.requestId, [frameId |-> Undef]).frameId)

\* lines 453-457: the response is populated, then the extra info recorded for
\* the request id is applied to it
ResolvedResponse(entry, params) ==
    LET populated == populateEntryFromResponse(entry, params.response)
    IN  IF params.requestId \in DOMAIN responseExtraInfo
        THEN [populated EXCEPT
                 !.response = addResponseExtraInfo(@, responseExtraInfo[params.requestId])]
        ELSE populated

ResponseReceived ==
    /\ At("Network.responseReceived")
    /\ LET params == messages[pos].params
           i == FindEntry(entries, params.requestId)
           j == FindEntry(entriesWithoutPage, params.requestId)
       IN  IF Len(pages) < 1
           THEN /\ responsesWithoutPage' = Append(responsesWithoutPage, params)
                /\ pos' = pos + 1
                /\ UNCHANGED <<messages, pc, entries, pageVars, entriesWithoutPage,
                               paramsWithoutPage, indexVars, callVars>>
           ELSE IF \/ params.requestId \in ignoredRequests
                   \/ (i = 0 /\ j = 0)
                   \/ PageForFrame(pages, ResponseFrameId(params)) = 0
           THEN Skip
           ELSE IF populateEntryFromResponseThrows(params.response)
           THEN Throw
           ELSE IF i # 0
           THEN EntriesOnly([entries EXCEPT ![i] = ResolvedResponse(@, params)])
           ELSE /\ entriesWithoutPage' =
                      [entriesWithoutPage EXCEPT ![j] = ResolvedResponse(@, params)]
                /\ pos' = pos + 1
                /\ UNCHANGED <<messages, pc, entries, pageVars, responsesWithoutPage,
                               paramsWithoutPage, indexVars, callVars>>

DataReceived ==
    /\ At("Network.dataReceived")
    /\ LET params == messages[pos].params
           i == FindEntry(entries, params.requestId)
       IN  IF Len(pages) < 1 \/ params.requestId \in ignoredRequests \/ i = 0
           THEN Skip
           ELSE IF IsNone(entries[i].response) THEN Skip
           ELSE EntriesOnly([entries EXCEPT
                                ![i].response.contentSize = @ + params.dataLength])

\* max(0, x) of Math.max
Max0(x) == IF x > 0 THEN x ELSE 0

\* lines 527-537: the entry's timings and elapsed time at completion
FinishedTimings(entry, params) ==
    LET startTime == IF ~FalsyNum(entry.__requestWillBeSentTime)
                     THEN entry.__requestWillBeSentTime ELSE entry._requestTime
    IN  IF entry._fromCache = "memory"
        THEN [entry EXCEPT !.time = 0,
                           !.timings = cachedTimings(entry.__requestWillBeSentTime,
                                                     params.timestamp)]
        ELSE IF IsNone(entry.timings)
        THEN [entry EXCEPT !.time = NaN]
        ELSE IF startTime = NoNum \/ entry.__receiveHeadersEnd = NoNum
        THEN [entry EXCEPT !.timings.receive = NaN, !.time = NaN]
        ELSE LET receive == formatMillis((params.timestamp - startTime) * 1000
                                         - entry.__receiveHeadersEnd)
                 t == entry.timings
             IN  [entry EXCEPT
                    !.timings.receive = receive,
                    !.time = FloorThousandth(
                                Max0(t.blocked) + Max0(t.dns) + Max0(t.connect)
                                + Max0(t.send) + Max0(t.wait) + Max0(receive))]

\* lines 542-563: sizes from the encoded data length
FinishedSizes(response, encodedDataLength) ==
    LET bodySize == IF isHttp1x(response.httpVersion) /\ response.headersSize > -1
                    THEN encodedDataLength - response.headersSize
                    ELSE encodedDataLength
        compression == Max0(response.contentSize - bodySize)
    IN  [response EXCEPT !._transferSize = encodedDataLength,
                         !.bodySize = bodySize,
                         !.compression = IF compression > 0 THEN compression ELSE @]

LoadingFinished ==
    /\ At("Network.loadingFinished")
    /\ LET params == messages[pos].params
           i == FindEntry(entries, params.requestId)
           timed == FinishedTimings(entries[i], params)
       IN  IF Len(pages) < 1 THEN Skip
           ELSE IF params.requestId \in ignoredRequests
           THEN /\ ignoredRequests' = ignoredRequests \ {params.requestId}
                /\ pos' = pos + 1
                /\ UNCHANGED <<messages, pc, entries, pageVars, bufferVars, rootFrameMappings,
                               loaders, recognizedOptionsCalls, grandParentId, extraVars, callVars>>
           ELSE IF i = 0 THEN Skip
           ELSE EntriesOnly([entries EXCEPT
                    ![i] = IF params.encodedDataLength >= 0 /\ ~IsNone(timed.response)
                           THEN [timed EXCEPT !.response =
                                    FinishedSizes(@, params.encodedDataLength)]
                           ELSE timed])

\* lines 574-580 and 591-597: the elapsed time since the page's timestamp
PageTiming(page, params, old) ==
    IF ~FalsyNum(params.timestamp) /\ ~FalsyNum(page.__timestamp)
    THEN formatMillis((params.timestamp - page.__timestamp) * 1000)
    ELSE old

PagesOnly(list) ==
    /\ pages' = list
    /\ pos' = pos + 1
    /\ UNCHANGED <<messages, pc, entries, currentPageId, lastUuid, bufferVars, indexVars,
                   callVars>>

LoadEventFired ==
    /\ At("Page.loadEventFired")
    /\ IF Len(pages) < 1 THEN Skip
       ELSE PagesOnly([pages EXCEPT ![Len(pages)].pageTimings.onLoad =
                          PageTiming(pages[Len(pages)], messages[pos].params, @)])

DomContentEventFired ==
    /\ At("Page.domContentEventFired")
    /\ IF Len(pages) < 1 THEN Skip
       ELSE PagesOnly([pages EXCEPT ![Len(pages)].pageTimings.onContentLoad =
                          PageTiming(pages[Len(pages)], messages[pos].params, @)])

\* an attachment that maps the frame to its parent and never follows the
\* parent's own mapping
FrameAttachedNoCompress ==
    /\ At("Page.frameAttached")
    /\ rootFrameMappings' = MapSet(rootFrameMappings, messages[pos].params.frameId,
                                   messages[pos].params.parentFrameId)
    /\ pos' = pos + 1
    /\ UNCHANGED <<messages, pc, entries, pageVars, bufferVars, ignoredRequests, loaders,
                   recognizedOptionsCalls, grandParentId, extraVars, callVars>>

\* lines 603-608: the frame is mapped to its parent; the while loop then runs
\* (pc = "compress") as long as grandParentId is truthy
FrameAttached ==
    /\ At("Page.frameAttached")
    /\ LET params == messages[pos].params
           mapped == MapSet(rootFrameMappings, params.frameId, params.parentFrameId)
           gp == MapGet(mapped, params.parentFrameId, Undef)
       IN  /\ rootFrameMappings' = mapped
           /\ grandParentId' = gp
           /\ IF FalsyStr(gp)
              THEN pos' = pos + 1 /\ pc' = pc
              ELSE pos' = pos /\ pc' = "compress"
    /\ UNCHANGED <<messages, entries, pageVars, bufferVars, ignoredRequests, loaders,
                   recognizedOptionsCalls, extraVars, callVars>>

\* lines 609-612: one iteration of the while loop
CompressFrame ==
    /\ pc = "compress"
    /\ LET frameId == messages[pos].params.frameId
           mapped == MapSet(rootFrameMappings, frameId, grandParentId)
           gp == MapGet(mapped, grandParentId, Undef)
       IN  /\ rootFrameMappings' = mapped
           /\ grandParentId' = gp
           /\ IF FalsyStr(gp)
              THEN pos' = pos + 1 /\ pc' = "loop"
              ELSE pos' = pos /\ pc' = pc
    /\ UNCHANGED <<messages, entries, pageVars, bufferVars, ignoredRequests, loaders,
                   recognizedOptionsCalls, extraVars, callVars>>

\* line 643
FailureComment(params) ==
    "Error: " \o params.errorText \o
    (IF FalsyStr(params.blockedReason) THEN "" ELSE ". Reason: " \o params.blockedReason)

\* lines 638-643
FailedEntry(entry, params) ==
    [entry EXCEPT
        !._transferSize = 0,
        !.request.httpVersion = OrStr(@, ""),
        !.response = [(IF IsNone(@) THEN blockedResponse ELSE @)
                         EXCEPT !._error = params.errorText],
        !.timings = IF IsNone(@) THEN blockedTimings ELSE @,
        !.serverIPAddress = "",
        !.comment = FailureComment(params)]

LoadingFailed ==
    /\ At("Network.loadingFailed")
    /\ LET params == messages[pos].params
           i == FindEntry(entries, params.requestId)
       IN  IF params.requestId \in ignoredRequests
           THEN /\ ignoredRequests' = ignoredRequests \ {params.requestId}
                /\ pos' = pos + 1
                /\ UNCHANGED <<messages, pc, entries, pageVars, bufferVars, rootFrameMappings,
                               loaders, recognizedOptionsCalls, grandParentId, extraVars, callVars>>
           ELSE IF i = 0 THEN Skip
           ELSE EntriesOnly([entries EXCEPT ![i] = FailedEntry(@, params)])

ResourceChangedPriority ==
    /\ At("Network.resourceChangedPriority")
    /\ LET params == messages[pos].params
           i == FindEntry(entries, params.requestId)
       IN  IF i = 0 THEN Skip
           ELSE EntriesOnly([entries EXCEPT ![i]._priority = params.newPriority])

\* lines 666-685: recorded under the request id, and applied at once to an
\* entry of `entries` that has its response
ResponseReceivedExtraInfo ==
    /\ At("Network.responseReceivedExtraInfo")
    /\ LET params == messages[pos].params
           i == FindEntry(entries, params.requestId)
       IN  /\ responseExtraInfo' = MapSet(responseExtraInfo, params.requestId, params)
           /\ entries' = IF i # 0 /\ ~IsNone(entries[i].response)
                         THEN [entries EXCEPT
                                  ![i].response = addResponseExtraInfo(@, params)]
                         ELSE entries
           /\ pos' = pos + 1
    /\ UNCHANGED <<messages, pc, pageVars, bufferVars, ignoredRequests, rootFrameMappings,
                   loaders, recognizedOptionsCalls, grandParentId, requestExtraInfo,
                   callVars>>

\* lines 687-706: recorded under the request id; for an entry of `entries`
\* addRequestExtraInfo is given the entry itself
RequestWillBeSentExtraInfo ==
    /\ At("Network.requestWillBeSentExtraInfo")
    /\ LET params == messages[pos].params
           i == FindEntry(entries, params.requestId)
       IN  /\ requestExtraInfo' = MapSet(requestExtraInfo, params.requestId, params)
           /\ entries' = IF i # 0
                         THEN [entries EXCEPT ![i] = addRequestExtraInfo(@, params)]
                         ELSE entries
           /\ pos' = pos + 1
    /\ UNCHANGED <<messages, pc, pageVars, bufferVars, ignoredRequests, rootFrameMappings,
                   loaders, recognizedOptionsCalls, grandParentId, responseExtraInfo,
                   callVars>>

\* line 142: /^(Page|Network)\..+/.test(method)
IsPageOrNetwork(method) ==
    \/ Len(method) > 5 /\ SubSeq(method, 1, 5) = "Page."
    \/ Len(method) > 8 /\ SubSeq(method, 1, 8) = "Network."

\* the cases of the switch
HandledMethods ==
    {"Page.frameNavigated", "Page.navigatedWithinDocument", "Network.requestWillBeSent",
     "Network.requestServedFromCache", "Network.responseReceived", "Network.dataReceived",
     "Network.loadingFinished", "Page.loadEventFired", "Page.domContentEventFired",
     "Page.frameAttached", "Network.loadingFailed", "Network.resourceChangedPriority",
     "Network.responseReceivedExtraInfo", "Network.requestWillBeSentExtraInfo"}

\* lines 142-144: a method of another family is passed over
NotPageOrNetwork ==
    /\ pc = "loop" /\ pos <= Len(messages)
    /\ ~IsPageOrNetwork(messages[pos].method)
    /\ Skip

\* lines 708-711: the default case hands the method to the ignoredEvents logger
IgnoredEvent ==
    /\ pc = "loop" /\ pos <= Len(messages)
    /\ IsPageOrNetwork(messages[pos].method)
    /\ messages[pos].method \notin HandledMethods
    /\ Skip

-----------------------------------------------------------------------------
(* After the loop: lines 715-774 *)

\* lines 715-719
DiskCacheFilter(list, opts) ==
    IF ~opts.includeResourcesFromDiskCache
    THEN SelectSeq(list, LAMBDA entry : ~entry.cache.beforeRequest)
    ELSE list

\* lines 732-737
HasResponse(entry) == ~IsNone(entry.response)

\* a finalizer that keeps the incomplete entries
ResponseFilterKeepsAll(list) == list

ResponseFilter(list) == SelectSeq(list, HasResponse)

\* lines 721-729: every property whose name starts with "__" is deleted
IsInternalName(prop) == Len(prop) >= 2 /\ SubSeq(prop, 1, 2) = "__"

\* a cleanup that deletes only the first internal property it meets
deleteFirstInternalProperty(o) ==
    LET internal == {k \in DOMAIN o : IsInternalName(k)}
        first == CHOOSE k \in internal : TRUE
    IN  IF internal = {} THEN o
        ELSE [prop \in DOMAIN o \ {first} |-> o[prop]]

deleteInternalProperties(o) ==
    [prop \in {k \in DOMAIN o : ~IsInternalName(k)} |-> o[prop]]

MapDelete(list) == [i \in 1..Len(list) |-> deleteInternalProperties(list[i])]

\* a finalizer that keeps the pages without entries
NonEmptyPagesKeepsAll(pageList, entryList) == pageList

\* lines 740-748: the pages some entry refers to
NonEmptyPages(pageList, entryList) ==
    SelectSeq(pageList,
              LAMBDA page : \E i \in 1..Len(entryList) : entryList[i].pageref = page.id)

\* lines 749-752: `page_${index + 1}`
PublicPageId(index) == "page_" \o ToString(index)

\* pagerefMapping[id]: undefined for an id that is not a key
PagerefMapping(pageList, id) ==
    LET hits == {i \in 1..Len(pageList) : pageList[i].id = id}
    IN  IF hits = {} THEN Undef
        ELSE PublicPageId(CHOOSE i \in hits : \A j \in hits : j <= i)

\* the returned log.pages and log.entries
Har(pageList, entryList, opts) ==
    LET kept == MapDelete(ResponseFilter(DiskCacheFilter(entryList, opts)))
        live == NonEmptyPages(MapDelete(pageList), kept)
    IN  [pages   |-> [i \in 1..Len(live) |->
                        [live[i] EXCEPT !.id = PagerefMapping(live, live[i].id)]],
         entries |-> [i \in 1..Len(kept) |->
                        [kept[i] EXCEPT !.pageref = PagerefMapping(live, kept[i].pageref)]]]

Finalize ==
    /\ pc = "loop" /\ pos > Len(messages)
    /\ report' = Har(pages, entries, options)
    /\ pc' = "done"
    /\ UNCHANGED <<messages, options, pos, entries, pageVars, bufferVars, indexVars,
                   run, firstReport>>

\* a second call of harFromMessages on the same message objects with the same
\* options: fresh local state, the messages as the first call left them
CallAgain ==
    /\ pc = "done" /\ run = 1
    /\ run' = 2
    /\ firstReport' = report
    /\ pos' = 1 /\ pc' = "loop"
    /\ pages' = <<>> /\ entries' = <<>>
    /\ entriesWithoutPage' = <<>> /\ responsesWithoutPage' = <<>>
    /\ paramsWithoutPage' = <<>>
    /\ currentPageId' = NoNum
    /\ ignoredRequests' = {} /\ rootFrameMappings' = EmptyMap /\ loaders' = EmptyMap
    /\ recognizedOptionsCalls' = EmptyMap /\ grandParentId' = Undef
    /\ responseExtraInfo' = EmptyMap /\ requestExtraInfo' = EmptyMap
    /\ report' = None
    /\ UNCHANGED <<messages, options, lastUuid>>

-----------------------------------------------------------------------------
(* The inputs *)

\* the longest message list of the core specification
MaxLen == 4

\* every list of 1..n messages over an alphabet
Streams(alphabet, n) == UNION {[1..k -> alphabet] : k \in 1..n}

OptionSets ==
    [includeResourcesFromDiskCache : BOOLEAN, wallTimeHelper : {"default"}]

\* the state at the top of harFromMessages, lines 91-104
InitWith(streams, opts) ==
    /\ messages \in streams
    /\ options \in opts
    /\ pos = 1 /\ pc = "loop"
    /\ pages = <<>> /\ entries = <<>>
    /\ entriesWithoutPage = <<>> /\ responsesWithoutPage = <<>> /\ paramsWithoutPage = <<>>
    /\ currentPageId = NoNum
    /\ ignoredRequests = {} /\ rootFrameMappings = EmptyMap /\ loaders = EmptyMap
    /\ recognizedOptionsCalls = EmptyMap /\ grandParentId = Undef
    /\ responseExtraInfo = EmptyMap /\ requestExtraInfo = EmptyMap
    /\ lastUuid = 0
    /\ report = None
    /\ run = 1 /\ firstReport = None

HttpA == "http://a/"

HttpB == "http://b/"

FtpUrl == "ftp://example.com/file"

OkResponse(url) == ResponsePayload(url, 200, Timing(1, 5), Undef)

RedirectPayload(url) == ResponsePayload(url, 302, Timing(1, 5), Undef)

\* two root navigations, one document request with its response, redirect,
\* completion, cache and failure events, and a failure for the second loader id
CoreAlphabet ==
    { FrameNavigatedMsg("F1", Undef, "A", HttpA),
      FrameNavigatedMsg("F2", Undef, "B", HttpB),
      RequestWillBeSentMsg("A", "A", "F1", HttpA, "GET", "other", HttpA, None, 1),
      RequestWillBeSentMsg("A", "A", "F1", HttpB, "GET", "other", HttpA, RedirectPayload(HttpA), 2),
      ResponseReceivedMsg("A", "F1", OkResponse(HttpA)),
      LoadingFailedMsg("A", "net::ERR_FAILED", "inspector"),
      LoadingFailedMsg("B", "net::ERR_ABORTED", ""),
      LoadingFinishedMsg("A", 3, 100),
      RequestServedFromCacheMsg("A") }

Init == InitWith(Streams(CoreAlphabet, MaxLen), OptionSets)

Next ==
    \/ FrameNavigated
    \/ RequestWillBeSent
    \/ ResponseReceived
    \/ RequestServedFromCache
    \/ LoadingFinished
    \/ LoadingFailed
    \/ Finalize

Spec == Init /\ [][Next]_vars

-----------------------------------------------------------------------------
(* Properties of the returned report *)

Returned == pc = "done"

\* the positions of the messages with a method
Positions(method) == {p \in 1..Len(messages) : messages[p].method = method}

\* C1: every entry of the returned report has a response object: an entry that
\* no response event, redirect payload, buffered-response replay or failure
\* event populated is not in log.entries
C1_EveryOutputEntryHasResponse ==
    Returned =>
        \A i \in 1..Len(report.entries) : report.entries[i].response # None

\* a run that returns a report with an entry although another entry was dropped
\* for want of a response
C1_Witness ==
    /\ Returned
    /\ Len(report.entries) >= 1
    /\ \E i \in 1..Len(entries) : entries[i].response = None

\* an entry of the engine's list reaches the report: it has a response and
\* passes the disk-cache policy
Survives(entry) ==
    /\ entry.response # None
    /\ options.includeResourcesFromDiskCache \/ ~entry.cache.beforeRequest

\* the pages, in creation order, that own an entry that reaches the report
SurvivingPages ==
    SelectSeq(pages, LAMBDA page :
        \E i \in 1..Len(entries) : Survives(entries[i]) /\ entries[i].pageref = page.id)

\* C2: every page of the report is referenced by an entry of the report, and the
\* page ids are exactly page_1 .. page_N, given in creation order to the pages
\* that survive
C2_PagesReferencedAndNumbered ==
    Returned =>
        /\ \A i \in 1..Len(report.pages) :
              /\ \E j \in 1..Len(report.entries) :
                    report.entries[j].pageref = report.pages[i].id
              /\ report.pages[i].id = "page_" \o ToString(i)
        /\ Len(report.pages) = Len(SurvivingPages)
        /\ \A i \in 1..Len(report.pages) :
              /\ report.pages[i].title = SurvivingPages[i].title
              /\ report.pages[i].startedDateTime = SurvivingPages[i].startedDateTime

\* the first page created was dropped, so the second one is page_1
C2_Witness ==
    /\ Returned
    /\ Len(pages) = 2
    /\ Len(report.pages) = 1
    /\ report.pages[1].title = pages[2].title
    /\ report.pages[1].title # pages[1].title
    /\ report.pages[1].id = "page_1"

\* C3: the pageref of every entry of the report is the public id of exactly one
\* page of the report, never undefined
C3_PagerefNamesOneOutputPage ==
    Returned =>
        \A j \in 1..Len(report.entries) :
            /\ report.entries[j].pageref # Undef
            /\ Cardinality({i \in 1..Len(report.pages) :
                               report.pages[i].id = report.entries[j].pageref}) = 1

\* an entry buffered before the first page reaches the report with that page's
\* public id, while a second page was created and dropped
C3_Witness ==
    /\ Returned
    /\ Len(pages) = 2
    /\ Len(report.pages) = 1
    /\ messages[1].method = "Network.requestWillBeSent"
    /\ \E j \in 1..Len(report.entries) :
          report.entries[j]._requestId = "A" /\ report.entries[j].pageref = "page_1"

-----------------------------------------------------------------------------
(* An unsupported scheme *)

\* a request over ftp with loader id "L", a response, a completion and a failure
\* for its id "A", and a root navigation whose loader id is that request id
FtpAlphabet ==
    { FrameNavigatedMsg("F1", Undef, "A", HttpA),
      RequestWillBeSentMsg("A", "L", "F1", FtpUrl, "GET", "other", HttpA, None, 1),
      ResponseReceivedMsg("A", "F1", OkResponse(FtpUrl)),
      LoadingFinishedMsg("A", 3, 100),
      LoadingFailedMsg("A", "net::ERR_FAILED", "inspector") }

InitFtp == InitWith(Streams(FtpAlphabet, MaxLen), OptionSets)

NextFtp ==
    \/ FrameNavigated
    \/ RequestWillBeSent
    \/ ResponseReceived
    \/ LoadingFinished
    \/ LoadingFailed
    \/ Finalize

SpecFtp == InitFtp /\ [][NextFtp]_vars

\* C4: a request whose URL scheme is not http or https is never in the report:
\* no entry of the report carries the request id or the URL of such a
\* Network.requestWillBeSent, whatever response, completion, failure or
\* navigation events for the same id come before or after it
C4_UnsupportedRequestNeverInOutput ==
    Returned =>
        \A p \in Positions("Network.requestWillBeSent") :
            ~isSupportedProtocol(messages[p].params.request.url) =>
                \A j \in 1..Len(report.entries) :
                    /\ report.entries[j]._requestId # messages[p].params.requestId
                    /\ report.entries[j].request.url # messages[p].params.request.url

-----------------------------------------------------------------------------
(* A redirect chain *)

\* a root navigation with loader id "L" and, for the one request id "R" of that
\* loader, the first leg, a redirected leg and the final response
RedirectAlphabet ==
    { FrameNavigatedMsg("F1", Undef, "L", HttpA),
      RequestWillBeSentMsg("R", "L", "F1", HttpA, "GET", "other", HttpA, None, 1),
      RequestWillBeSentMsg("R", "L", "F1", HttpB, "GET", "other", HttpA, RedirectPayload(HttpA), 2),
      ResponseReceivedMsg("R", "F1", OkResponse(HttpB)) }

InitRedirect == InitWith(Streams(RedirectAlphabet, MaxLen), OptionSets)

NextRedirect ==
    \/ FrameNavigated
    \/ RequestWillBeSent
    \/ ResponseReceived
    \/ Finalize

SpecRedirect == InitRedirect /\ [][NextRedirect]_vars

\* the input is one redirect chain of k legs: one root navigation, then or before
\* it the legs (the first without, every later one with a redirect payload), and
\* last the one final response, after the navigation
RedirectChain(k) ==
    LET legs == Positions("Network.requestWillBeSent")
        navs == Positions("Page.frameNavigated")
        finals == Positions("Network.responseReceived")
    IN  /\ Cardinality(legs) = k
        /\ Cardinality(navs) = 1
        /\ finals = {Len(messages)}
        /\ \A p \in legs :
              IsNone(messages[p].params.redirectResponse) <=> (\A q \in legs : p <= q)

\* C5: a redirect chain of k legs for one request id gives k entries in the
\* report, in the order of the legs, with pairwise distinct _requestId and each
\* with a response, whether the legs came after the first page or were buffered
\* before it
C5_RedirectChainGivesDistinctEntries ==
    \A k \in 1..MaxLen :
        (Returned /\ RedirectChain(k)) =>
            /\ Len(report.entries) = k
            /\ \A i, j \in 1..Len(report.entries) :
                  i # j => report.entries[i]._requestId # report.entries[j]._requestId
            /\ \A i \in 1..Len(report.entries) : report.entries[i].response # None
            /\ \A i, j \in 1..Len(report.entries) :
                  i < j => report.entries[i].startedDateTime
                              <= report.entries[j].startedDateTime

-----------------------------------------------------------------------------
(* A second call on the same message objects *)

\* a document request "A" of the root frame, the OPTIONS preflight "P" it causes
\* (no loader id, no frame id) and the preflight's response (no frame id)
AgainAlphabet ==
    { FrameNavigatedMsg("F1", Undef, "L", HttpA),
      RequestWillBeSentMsg("A", "L", "F1", HttpA, "GET", "parser", HttpA, None, 1),
      RequestWillBeSentMsg("P", "", Undef, HttpB, "OPTIONS", "other", HttpA, None, 2),
      ResponseReceivedMsg("P", Undef, OkResponse(HttpB)) }

InitAgain == InitWith(Streams(AgainAlphabet, MaxLen), OptionSets)

NextAgain ==
    \/ FrameNavigated
    \/ RequestWillBeSent
    \/ ResponseReceived
    \/ Finalize
    \/ CallAgain

SpecAgain == InitAgain /\ [][NextAgain]_vars

\* C6: the second call of harFromMessages on the same message objects with the
\* same options returns the report the first call returned: the same pages, the
\* same entries, the same pagerefs and field values, none depending on the
\* random page ids
C6_SecondRunSameReport ==
    (run = 2 /\ Returned) => report = firstReport

-----------------------------------------------------------------------------
(* Navigation *)

\* root navigations of one frame with two loader ids, a child-frame navigation
\* with a loader id of its own, a same-document navigation, and one request of
\* loader "A" with its response
NavAlphabet ==
    { FrameNavigatedMsg("F1", Undef, "A", HttpA),
      FrameNavigatedMsg("F1", Undef, "B", HttpB),
      FrameNavigatedMsg("F2", "F1", "C", HttpB),
      NavigatedWithinDocumentMsg("F1", HttpA),
      RequestWillBeSentMsg("R", "A", "F1", HttpA, "GET", "other", HttpA, None, 1),
      ResponseReceivedMsg("R", "F1", OkResponse(HttpA)) }

InitNav == InitWith(Streams(NavAlphabet, MaxLen), OptionSets)

NextNav ==
    \/ FrameNavigated
    \/ NavigatedWithinDocument
    \/ RequestWillBeSent
    \/ ResponseReceived
    \/ Finalize

SpecNav == InitNav /\ [][NextNav]_vars

\* a response that arrives while no page exists is appended to the buffer and
\* touches neither the pages nor the entries
C7_Buffered ==
    (At("Network.responseReceived") /\ Len(pages) = 0) =>
        /\ responsesWithoutPage' = Append(responsesWithoutPage, messages[pos].params)
        /\ pages' = pages /\ entries' = entries
        /\ entriesWithoutPage' = entriesWithoutPage

\* the step that creates the first page leaves, for every buffered response
\* whose request was buffered too, an attached entry with that request id, a
\* response with the buffered status, and the new page as its pageref; the
\* buffers are empty afterwards
C7_Merged ==
    (Len(pages) = 0 /\ Len(pages') = 1) =>
        /\ messages[pos].method \in {"Page.frameNavigated", "Page.navigatedWithinDocument"}
        /\ responsesWithoutPage' = <<>> /\ entriesWithoutPage' = <<>>
        /\ \A r \in 1..Len(responsesWithoutPage) :
              FindEntry(entriesWithoutPage, responsesWithoutPage[r].requestId) # 0 =>
                 \E i \in 1..Len(entries') :
                    /\ entries'[i]._requestId = responsesWithoutPage[r].requestId
                    /\ entries'[i].response # None
                    /\ entries'[i].response.status = responsesWithoutPage[r].response.status
                    /\ entries'[i].pageref = pages'[1].id

\* an attached entry keeps its place, its pageref and, once it has one, a response
C7_Kept ==
    /\ Len(entries') >= Len(entries)
    /\ \A i \in 1..Len(entries) :
          /\ entries'[i].pageref = entries[i].pageref
          /\ entries[i].response # None => entries'[i].response # None

\* C7: a Network.responseReceived that arrives while no page exists is buffered;
\* when the first page is created, by a root Page.frameNavigated or by a
\* Page.navigatedWithinDocument, the buffered response is merged into the entry
\* with its request id and that entry is attached to the new page, and it keeps
\* the response and that pageref for the rest of the run
C7_BufferedResponseMergedOnFirstPage ==
    [][C7_Buffered /\ C7_Merged /\ C7_Kept]_vars

\* a request and its response were buffered, a same-document navigation created
\* the first page, and the entry now has the response and the page
C7_Witness ==
    /\ Len(messages) >= 3 /\ pos = 4
    /\ messages[1].method = "Network.requestWillBeSent"
    /\ messages[2].method = "Network.responseReceived"
    /\ messages[3].method = "Page.navigatedWithinDocument"
    /\ Len(pages) = 1
    /\ \E i \in 1..Len(entries) :
          /\ entries[i]._requestId = "R"
          /\ entries[i].response # None
          /\ entries[i].pageref = pages[1].id

\* the Page.frameNavigated at the current position names a child frame
ChildNavigation ==
    At("Page.frameNavigated") /\ ~FalsyStr(messages[pos].params.frame.parentId)

\* the Page.frameNavigated at the current position is a root navigation whose
\* loader id an earlier root navigation carried
RepeatedNavigation ==
    /\ At("Page.frameNavigated")
    /\ FalsyStr(messages[pos].params.frame.parentId)
    /\ \E q \in 1..(pos - 1) :
          /\ messages[q].method = "Page.frameNavigated"
          /\ FalsyStr(messages[q].params.frame.parentId)
          /\ messages[q].params.frame.loaderId = messages[pos].params.frame.loaderId

-----------------------------------------------------------------------------
(* Requests without a response, failed loads *)

\* the ids an entry that now has the id may have had: a redirect appends "r"
IdHistory(id) ==
    {id} \cup {SubSeq(id, 1, k) : k \in {n \in 1..(Len(id) - 1) :
                  \A m \in (n + 1)..Len(id) : SubSeq(id, m, m) = "r"}}

ResponseEventFor(id) ==
    \E p \in Positions("Network.responseReceived") : messages[p].params.requestId = id

FailureEventFor(id) ==
    \E p \in Positions("Network.loadingFailed") : messages[p].params.requestId = id

RedirectEventFor(id) ==
    \E p \in Positions("Network.requestWillBeSent") :
        /\ messages[p].params.requestId = id
        /\ ~IsNone(messages[p].params.redirectResponse)

\* C9 as stated: a request whose id no Network.responseReceived names is not in
\* the report
C9_NoResponseEventNoEntry ==
    Returned =>
        \A p \in Positions("Network.requestWillBeSent") :
            ~ResponseEventFor(messages[p].params.requestId) =>
                \A j \in 1..Len(report.entries) :
                    report.entries[j]._requestId # messages[p].params.requestId

\* C9 (amended): a request whose id - and every id that id may be the redirect
\* renaming of - is named by no Network.responseReceived, by no
\* Network.loadingFailed and by no Network.requestWillBeSent that carries a
\* redirect payload is not in the report
C9_NoResponseSourceNoEntry ==
    Returned =>
        \A p \in Positions("Network.requestWillBeSent") :
            (\A id \in IdHistory(messages[p].params.requestId) :
                ~ResponseEventFor(id) /\ ~FailureEventFor(id) /\ ~RedirectEventFor(id)) =>
                \A j \in 1..Len(report.entries) :
                    report.entries[j]._requestId # messages[p].params.requestId

\* the report has an entry (the failed synthetic one of loader "B") while the
\* attached entry of request "A", which nothing gave a response, is left out
C9_Witness ==
    /\ Returned
    /\ ~ResponseEventFor("A") /\ ~FailureEventFor("A") /\ ~RedirectEventFor("A")
    /\ \E i \in 1..Len(entries) :
          entries[i]._requestId = "A" /\ entries[i]._initiator_type = "other"
    /\ Len(report.entries) = 1
    /\ report.entries[1]._requestId = "B"

\* the string has the substring
Contains(s, sub) ==
    \E i \in 1..(Len(s) - Len(sub) + 1) : SubSeq(s, i, i + Len(sub) - 1) = sub

\* the input is one failed load and a page: one Network.requestWillBeSent for an
\* http URL, later one Network.loadingFailed for its id with an error text and a
\* block reason, and otherwise only root navigations
FailedLoad(p, q) ==
    /\ Positions("Network.requestWillBeSent") = {p}
    /\ Positions("Network.loadingFailed") = {q}
    /\ p < q
    /\ IsNone(messages[p].params.redirectResponse)
    /\ messages[q].params.requestId = messages[p].params.requestId
    /\ ~FalsyStr(messages[q].params.blockedReason)
    /\ Positions("Page.frameNavigated") = (1..Len(messages)) \ {p, q}
    /\ Len(messages) >= 3

\* C10: a failed load gives an entry of the report whose comment contains the
\* error text and the block reason and whose response is the synthetic failure
\* response (status 0, content size 0, transfer size 0, _error the error text),
\* whether or not a page existed when the request and the failure were processed
C10_FailedLoadGivesFailureEntry ==
    \A p, q \in 1..MaxLen :
        (Returned /\ FailedLoad(p, q)) =>
            \E j \in 1..Len(report.entries) :
                /\ report.entries[j]._requestId = messages[p].params.requestId
                /\ Contains(report.entries[j].comment, messages[q].params.errorText)
                /\ Contains(report.entries[j].comment, messages[q].params.blockedReason)
                /\ report.entries[j].response # None
                /\ report.entries[j].response.status = 0
                /\ report.entries[j].response.contentSize = 0
                /\ report.entries[j].response._transferSize = 0
                /\ report.entries[j].response._error = messages[q].params.errorText

-----------------------------------------------------------------------------
(* The disk-cache policy *)

\* the request ids named by a Network.requestServedFromCache of the input
ServedFromCacheIds ==
    {messages[p].params.requestId : p \in Positions("Network.requestServedFromCache")}

\* C11: with includeResourcesFromDiskCache false no entry of the report carries
\* a request id that a Network.requestServedFromCache named, wherever that event
\* stood relative to the creation of the page; with the option true every
\* attached entry with such an id and a response is in the report
C11_DiskCachePolicy ==
    Returned =>
        IF ~options.includeResourcesFromDiskCache
        THEN \A j \in 1..Len(report.entries) :
                report.entries[j]._requestId \notin ServedFromCacheIds
        ELSE \A i \in 1..Len(entries) :
                (entries[i]._requestId \in ServedFromCacheIds
                    /\ entries[i].response # None) =>
                        \E j \in 1..Len(report.entries) :
                            report.entries[j]._requestId = entries[i]._requestId

-----------------------------------------------------------------------------
(* Elapsed time *)

\* a response 1 s into the trace whose headers ended 12.5004 ms after the request
TimedResponse(url, fromCache) ==
    ResponsePayload(url, 200, Timing(10000, 125004), fromCache)

\* one request of the page's loader at 1 s, its response from the network or
\* from the memory cache, its completion at 1.0301 s and its failure
TimeAlphabet ==
    { FrameNavigatedMsg("F1", Undef, "L", HttpA),
      RequestWillBeSentMsg("A", "L", "F1", HttpA, "GET", "other", HttpA, None, 10000),
      ResponseReceivedMsg("A", "F1", TimedResponse(HttpA, Undef)),
      ResponseReceivedMsg("A", "F1", TimedResponse(HttpA, "memory")),
      LoadingFinishedMsg("A", 10301, 100),
      LoadingFailedMsg("A", "net::ERR_FAILED", "inspector") }

InitTime == InitWith(Streams(TimeAlphabet, MaxLen), OptionSets)

NextTime ==
    \/ FrameNavigated
    \/ RequestWillBeSent
    \/ ResponseReceived
    \/ LoadingFinished
    \/ LoadingFailed
    \/ Finalize

SpecTime == InitTime /\ [][NextTime]_vars

\* the sum of the timing components that are not negative
NonNegativeSum(t) ==
    LET parts == <<t.blocked, t.dns, t.connect, t.send, t.wait, t.receive>>
        Plus(x) == IF x > 0 THEN x ELSE 0
    IN  IF \E i \in 1..Len(parts) : parts[i] = NaN THEN NaN
        ELSE Plus(parts[1]) + Plus(parts[2]) + Plus(parts[3])
             + Plus(parts[4]) + Plus(parts[5]) + Plus(parts[6])

\* C12: the time of every entry of the report is the sum of its timing
\* components that are not negative (a component of -1 counts 0), floored to the
\* precision of a thousandth of a millisecond: for entries completed normally,
\* entries served from the memory cache and failed entries
C12_TimeIsSumOfTimings ==
    Returned =>
        \A j \in 1..Len(report.entries) :
            LET sum == NonNegativeSum(report.entries[j].timings)
            IN  /\ sum # NaN
                /\ report.entries[j].time = (sum \div Thousandth) * Thousandth

-----------------------------------------------------------------------------
(* Internal fields *)

\* the names of the fields of the pages and entries of the report
ReportFieldNames ==
    UNION ({DOMAIN report.pages[i] : i \in 1..Len(report.pages)}
           \cup {DOMAIN report.entries[j] : j \in 1..Len(report.entries)})

\* C13: no field whose name starts with the double marker "__" is on a page or
\* an entry of the report
C13_NoInternalFieldInOutput ==
    Returned =>
        \A name \in ReportFieldNames :
            ~(Len(name) >= 2 /\ SubSeq(name, 1, 2) = "__")

\* the report has a page and an entry whose objects carried internal fields
\* when the loop ended, among them a cache mark and a page timestamp
C13_Witness ==
    /\ Returned
    /\ Len(report.pages) >= 1 /\ Len(report.entries) >= 1
    /\ "_requestId" \in ReportFieldNames
    /\ \E i \in 1..Len(pages) :
          "__loaderId" \in DOMAIN pages[i] /\ pages[i].__timestamp # NoNum
    /\ \E i \in 1..Len(entries) :
          /\ "__frameId" \in DOMAIN entries[i]
          /\ entries[i].__servedFromCache
          /\ entries[i].response # None

-----------------------------------------------------------------------------
(* Degrading without aborting *)

\* a response without timing data
UntimedResponse(url) == ResponsePayload(url, 200, None, Undef)

\* a root navigation, a response for its loader id that carries no timing, a
\* request of an unsupported scheme, and a completion and a failure for a
\* request id never seen
DegradeAlphabet ==
    { FrameNavigatedMsg("F1", Undef, "A", HttpA),
      ResponseReceivedMsg("A", "F1", UntimedResponse(HttpA)),
      RequestWillBeSentMsg("X", "L", "F1", FtpUrl, "GET", "other", HttpA, None, 1),
      LoadingFinishedMsg("Z", 3, 100),
      LoadingFailedMsg("Z", "net::ERR_FAILED", "") }

InitDegrade == InitWith(Streams(DegradeAlphabet, MaxLen), OptionSets)

NextDegrade ==
    \/ FrameNavigated
    \/ RequestWillBeSent
    \/ ResponseReceived
    \/ LoadingFinished
    \/ LoadingFailed
    \/ Finalize

SpecDegrade == InitDegrade /\ [][NextDegrade]_vars

\* C14: the run never aborts: no step of harFromMessages ends it with an
\* exception, whatever ids the events name, also when the recovery of a root
\* navigation adopts a response without timing data
C14_RunNeverAborts == pc # "thrown"

-----------------------------------------------------------------------------
(* The pending buffers *)

\* while a page exists the three pending buffers are empty
C15_Empty ==
    Len(pages) >= 1 =>
        /\ entriesWithoutPage = <<>>
        /\ paramsWithoutPage = <<>>
        /\ responsesWithoutPage = <<>>

\* the step that creates the first page moves the buffered entries, in their
\* order, to the end of the main entry list with the first page as pageref
C15_Moved ==
    (Len(pages) = 0 /\ Len(pages') = 1) =>
        LET k == Len(entriesWithoutPage)
            n == Len(entries')
        IN  /\ n >= k
            /\ \A i \in 1..k :
                  /\ entries'[n - k + i]._requestId = entriesWithoutPage[i]._requestId
                  /\ entries'[n - k + i].__wallTime = entriesWithoutPage[i].__wallTime
                  /\ entries'[n - k + i].request.url = entriesWithoutPage[i].request.url
                  /\ entries'[n - k + i].pageref = pages'[1].id

\* C15: the pending buffers are flushed when the first page appears and stay
\* empty: in every reachable state with a page the buffered entries, the
\* buffered request params and the buffered responses are empty, and the step
\* that creates the first page has moved every buffered entry into the main
\* entry list with its pageref set to that page
C15_BuffersFlushedOnFirstPage ==
    [](C15_Empty) /\ [][C15_Moved]_vars

\* two requests and a response were buffered, a root navigation created the
\* first page, the buffers are empty and both entries belong to the page
C15_Witness ==
    /\ Len(messages) = 4 /\ pos = 5 /\ Len(pages) = 1
    /\ messages[1].method = "Network.requestWillBeSent"
    /\ messages[2].method = "Network.requestWillBeSent"
    /\ messages[3].method = "Network.responseReceived"
    /\ messages[4].method = "Page.frameNavigated"
    /\ entriesWithoutPage = <<>> /\ responsesWithoutPage = <<>>
    /\ Len(entries) >= 2
    /\ \A i \in 1..Len(entries) : entries[i].pageref = pages[1].id

-----------------------------------------------------------------------------
(* Extra-info events *)

\* the headers a Network.requestWillBeSentExtraInfo reports
ExtraRequestHeaders == <<<<"Accept", "*/*">>, <<"Cookie", "sid=1; u=3">>, <<"Host", "a">>>>

\* two cookies that were sent and one that was blocked
AssociatedCookies ==
    << [cookie |-> [name |-> "sid", value |-> "1", priority |-> "Medium"],
        blockedReasons |-> <<>>],
       [cookie |-> [name |-> "u", value |-> "3", priority |-> "Medium"],
        blockedReasons |-> <<>>],
       [cookie |-> [name |-> "t", value |-> "2", priority |-> "Medium"],
        blockedReasons |-> <<"SameSiteStrict">>] >>

\* the headers a Network.responseReceivedExtraInfo reports
ExtraResponseHeaders ==
    <<<<"Content-Type", "text/html">>, <<"Set-Cookie", "sid=1">>, <<"Server", "a">>>>

\* one request "R" of the root frame with its response, a root navigation, and
\* extra-info events for "R": request-side with headers and cookies and with
\* cookies only, response-side with headers and a blocked cookie object, and
\* with only a blocked cookie line of another name
ExtraAlphabet ==
    { FrameNavigatedMsg("F1", Undef, "A", HttpA),
      RequestWillBeSentMsg("R", "A", "F1", HttpA, "GET", "other", HttpA, None, 1),
      ResponseReceivedMsg("R", "F1", OkResponse(HttpA)),
      RequestWillBeSentExtraInfoMsg("R",
          [headers |-> ExtraRequestHeaders, associatedCookies |-> AssociatedCookies]),
      RequestWillBeSentExtraInfoMsg("R", [associatedCookies |-> AssociatedCookies]),
      ResponseReceivedExtraInfoMsg("R",
          [headers |-> ExtraResponseHeaders,
           blockedCookies |-> <<[cookie |-> [name |-> "sid", value |-> "1"],
                                 blockedReasons |-> <<"SameSiteStrict">>]>>]),
      ResponseReceivedExtraInfoMsg("R",
          [blockedCookies |-> <<[cookieLine |-> "t=2",
                                 blockedReasons |-> <<"SyntaxError">>]>>]) }

InitExtra == InitWith(Streams(ExtraAlphabet, MaxLen), OptionSets)

NextExtra ==
    \/ FrameNavigated
    \/ RequestWillBeSent
    \/ ResponseReceived
    \/ RequestWillBeSentExtraInfo
    \/ ResponseReceivedExtraInfo
    \/ Finalize

SpecExtra == InitExtra /\ [][NextExtra]_vars

\* the params of the last event of the method for the request id among the
\* messages before position p, None when there is none
LastEventBefore(method, requestId, p) ==
    LET hits == {k \in 1..(p - 1) : /\ messages[k].method = method
                                    /\ messages[k].params.requestId = requestId}
    IN  IF hits = {} THEN None
        ELSE messages[CHOOSE k \in hits : \A l \in hits : l <= k].params

\* the step of a Network.requestWillBeSent whose request id had request-side
\* extra info before: the entry the step creates has the headers of that extra
\* info, and the cookies it associates without a blocked reason
C16_Step ==
    LET params == messages[pos].params
        info == LastEventBefore("Network.requestWillBeSentExtraInfo", params.requestId, pos)
        created == IF Len(pages) = 0
                   THEN entriesWithoutPage'[Len(entriesWithoutPage')]
                   ELSE entries'[Len(entries')]
    IN  (At("Network.requestWillBeSent") /\ pos' = pos + 1 /\ ~IsNone(info)) =>
            /\ created._requestId = params.requestId
            /\ Has(info, "headers") =>
                  created.request.headers = parseHeaders(info.headers)
            /\ Has(info, "associatedCookies") =>
                  created.request.cookies = AllowedCookies(info.associatedCookies)

\* C16: when a Network.requestWillBeSentExtraInfo for a request id was processed
\* before the Network.requestWillBeSent of that id, the entry created for the
\* request has the request headers of the extra info and, when it gave
\* associated cookies, the unblocked ones as its request cookies
C16_DeferredRequestInfoApplied == [][C16_Step]_vars

\* the step of a Network.requestWillBeSentExtraInfo whose request id has an
\* entry in the main list: entry.request.cookies becomes the unblocked
\* associated cookies and entry.request.headers the reported headers
C17_Step ==
    LET params == messages[pos].params
        i == FindEntry(entries, params.requestId)
    IN  (At("Network.requestWillBeSentExtraInfo") /\ i # 0) =>
            /\ Has(params, "associatedCookies") =>
                  entries'[i].request.cookies = AllowedCookies(params.associatedCookies)
            /\ Has(params, "headers") =>
                  entries'[i].request.headers = parseHeaders(params.headers)

\* C17: a Network.requestWillBeSentExtraInfo for a request id that has an entry
\* replaces entry.request.cookies by exactly the associated cookies with an
\* empty blockedReasons list and, when it carries headers, entry.request.headers
\* by those headers
C17_RequestInfoReplacesRequestFields == [][C17_Step]_vars

\* the response of the entry shows the response-side extra info: its headers
\* when the info has headers, and none of the cookies the info names as blocked
ShowsResponseInfo(entry, info) ==
    /\ Has(info, "headers") => entry.response.headers = parseHeaders(info.headers)
    /\ Has(info, "blockedCookies") =>
          \A c \in 1..Len(entry.response.cookies) :
              ~\E b \in 1..Len(info.blockedCookies) :
                  BlocksName(info.blockedCookies[b], entry.response.cookies[c].name)

\* C18: response-side extra info is never lost to ordering: whenever an entry
\* has its response, populated by a Network.responseReceived directly or by the
\* replay of a buffered one, the response shows the last
\* Network.responseReceivedExtraInfo processed for its request id, whether that
\* event came before or after the response
C18_ResponseInfoNeverLost ==
    \A i \in 1..Len(entries) :
        LET info == LastEventBefore("Network.responseReceivedExtraInfo",
                                    entries[i]._requestId, pos)
        IN  (~IsNone(entries[i].response) /\ ~IsNone(info)) =>
                ShowsResponseInfo(entries[i], info)

-----------------------------------------------------------------------------
(* The preflight recovery *)

\* the most messages of another family between the requests of a stream
MaxFill == 50

\* k messages the loop passes over
RECURSIVE Fill(_)
Fill(k) == IF k = 0 THEN <<>> ELSE <<OtherMsg("Runtime.consoleAPICalled")>> \o Fill(k - 1)

\* a CORS preflight of the document HttpA: no loader id, OPTIONS, initiator other
PreflightMsg == RequestWillBeSentMsg("P", "", "", HttpB, "OPTIONS", "other", HttpA, None, 3)

\* a request for HttpA of loader "A", a second request (for HttpA again or for
\* another URL) of loader "B", some other messages, the preflight, and other
\* messages to the end of the stream
WindowStreams ==
    { << RequestWillBeSentMsg("A", "A", "F1", HttpA, "GET", "other", HttpA, None, 1), second >>
         \o Fill(j) \o <<PreflightMsg>> \o Fill(k) :
      second \in { RequestWillBeSentMsg("B", "B", "F2", HttpA, "GET", "other", HttpA, None, 2),
                   RequestWillBeSentMsg("B", "B", "F2", HttpB, "GET", "other", HttpA, None, 2) },
      j \in 0..MaxFill, k \in 0..MaxFill }

InitWindow ==
    /\ InitWith(WindowStreams, OptionSets)
    /\ Len(messages) <= MaxFill + 3

NextWindow ==
    \/ RequestWillBeSent
    \/ NotPageOrNetwork
    \/ Finalize

SpecWindow == InitWindow /\ [][NextWindow]_vars

\* the positions, among the up to LookBack messages before the current one, of
\* the non-OPTIONS requests for the URL
RecentRequestsFor(url) ==
    {k \in 1..(pos - 1) :
        /\ k >= pos - LookBack
        /\ messages[k].method = "Network.requestWillBeSent"
        /\ messages[k].params.request.method # "OPTIONS"
        /\ messages[k].params.request.url = url}

\* the step of a preflight with such a request before it: the preflight has
\* the loader id and the frame id of the latest one, and the pair is recorded
\* under the preflight's request id
C19_Step ==
    LET params == messages[pos].params
        recent == RecentRequestsFor(params.documentURL)
        initiator == messages[CHOOSE k \in recent : \A l \in recent : l <= k].params
    IN  (At("Network.requestWillBeSent") /\ IsPreflight(params) /\ recent # {}) =>
            /\ messages'[pos].params.loaderId = initiator.loaderId
            /\ messages'[pos].params.frameId = initiator.frameId
            /\ params.requestId \in DOMAIN recognizedOptionsCalls'
            /\ recognizedOptionsCalls'[params.requestId] =
                  [loaderId |-> initiator.loaderId, frameId |-> initiator.frameId]

\* C19: a Network.requestWillBeSent with empty loader id, method OPTIONS and
\* initiator type other, at any position of a stream of any length, adopts the
\* loader id and the frame id of the most recent non-OPTIONS request for its
\* documentURL among the up to 50 messages before it, and the pair is recorded
\* under its request id
C19_PreflightAdoptsRecentRequest == [][C19_Step]_vars

-----------------------------------------------------------------------------
(* The frame-to-root map *)

\* attachments of the frames F2, F3 and F4 below the root frame F1: every
\* parent has a smaller number than its child, so no list of them has a cycle
FrameAlphabet ==
    { FrameAttachedMsg("F2", "F1"), FrameAttachedMsg("F3", "F1"),
      FrameAttachedMsg("F3", "F2"), FrameAttachedMsg("F4", "F2"),
      FrameAttachedMsg("F4", "F3") }

InitFrames == InitWith(Streams(FrameAlphabet, MaxLen), OptionSets)

NextFrames ==
    \/ FrameAttached
    \/ CompressFrame
    \/ Finalize

SpecFrames == InitFrames /\ [][NextFrames]_vars

\* every key of the map resolves in one lookup to a frame that is not a key
ResolvesInOneLookup ==
    \A f \in DOMAIN rootFrameMappings :
        rootFrameMappings[f] \notin DOMAIN rootFrameMappings

\* among the attachments processed so far, none attaches a frame that an
\* earlier one named as a parent
ParentFirst ==
    \A i, j \in 1..(pos - 1) :
        (i < j /\ j <= Len(messages)) =>
            messages[j].params.frameId # messages[i].params.parentFrameId

\* C20 as stated: between two events, after any list of attachments of a frame
\* tree, in whatever order parent and child were attached, no value of the
\* frame-to-root map is itself a key of the map
C20_EveryOrderResolvesToRoot ==
    pc # "compress" => ResolvesInOneLookup

\* C20: between two events, when every frame was attached before any
\* attachment named it as a parent, no value of the frame-to-root map is itself
\* a key of the map: every frame resolves to its root in one lookup
C20_ParentFirstResolvesToRoot ==
    (pc # "compress" /\ ParentFirst) => ResolvesInOneLookup

\* F2 was attached to the root, F3 to F2 and F4 to F3, in this order, and F3
\* and F4 are mapped to the root F1
C20_Witness ==
    /\ pc = "loop" /\ pos = 4 /\ Len(messages) >= 3
    /\ messages[1] = FrameAttachedMsg("F2", "F1")
    /\ messages[2] = FrameAttachedMsg("F3", "F2")
    /\ messages[3] = FrameAttachedMsg("F4", "F3")
    /\ ParentFirst
    /\ rootFrameMappings["F3"] = "F1" /\ rootFrameMappings["F4"] = "F1"

-----------------------------------------------------------------------------
(* The recovery of a root navigation *)

\* the messages of another family that may precede the events of a stream
MaxPad == 8

\* root navigations of loader "A" and of loader "B", the originating request
\* of loader "A", a request of another loader, and a response whose request id
\* is the loader id "A"
RecoverAlphabet ==
    { FrameNavigatedMsg("F1", Undef, "A", HttpA),
      FrameNavigatedMsg("F1", Undef, "B", HttpB),
      RequestWillBeSentMsg("A", "A", "F1", HttpA, "GET", "other", HttpA, None, 1),
      RequestWillBeSentMsg("R", "C", "F1", HttpB, "GET", "other", HttpA, None, 2),
      ResponseReceivedMsg("A", "F1", TimedResponse(HttpA, Undef)) }

\* the events come first in the input, or after MaxPad other messages, which
\* puts some of them behind the first FirstWindow messages
InitRecover ==
    InitWith({Fill(pad) \o s : pad \in {0, MaxPad}, s \in Streams(RecoverAlphabet, MaxLen)},
             OptionSets)

NextRecover ==
    \/ FrameNavigated
    \/ RequestWillBeSent
    \/ ResponseReceived
    \/ NotPageOrNetwork
    \/ Finalize

SpecRecover == InitRecover /\ [][NextRecover]_vars

\* the position of the first request of the loader among the processed
\* messages, 0 when there is none
OriginatingRequest(loaderId) ==
    LET hits == {k \in 1..(pos - 1) :
                    /\ messages[k].method = "Network.requestWillBeSent"
                    /\ messages[k].params.loaderId = loaderId}
    IN  IF hits = {} THEN 0 ELSE Least(hits)

\* the position of the first Network.responseReceived for the request id among
\* the first 10 messages of the input, 0 when there is none
EarlyResponse(requestId) ==
    LET hits == {k \in 1..Len(messages) :
                    /\ k <= 10
                    /\ messages[k].method = "Network.responseReceived"
                    /\ messages[k].params.requestId = requestId}
    IN  IF hits = {} THEN 0 ELSE Least(hits)

\* the step of a root navigation that creates a page
CreatesPage ==
    /\ At("Page.frameNavigated")
    /\ Len(pages') = Len(pages) + 1

C21_Step ==
    LET frame == messages[pos].params.frame
        req == OriginatingRequest(frame.loaderId)
        resp == EarlyResponse(frame.loaderId)
        page == pages'[Len(pages')]
        synthetic == entries'[Len(entries) + 1]
    IN  CreatesPage =>
            IF req # 0
            THEN /\ Len(entries') = Len(entries) + Len(entriesWithoutPage)
                 /\ page.__timestamp = messages[req].params.timestamp
            ELSE /\ Len(entries') = Len(entries) + 1 + Len(entriesWithoutPage)
                 /\ synthetic.request.method = "GET"
                 /\ synthetic.pageref = page.id
                 /\ IF resp # 0
                    THEN /\ synthetic._requestId = messages[resp].params.requestId
                         /\ synthetic.request.url = messages[resp].params.response.url
                         /\ synthetic.__requestWillBeSentTime =
                               messages[resp].params.response.timing.requestTime
                         /\ page.__timestamp =
                               messages[resp].params.response.timing.requestTime
                    ELSE /\ synthetic._requestId = frame.loaderId
                         /\ synthetic.__frameId = frame.id
                         /\ synthetic.request.url = frame.url
                         /\ synthetic.__requestWillBeSentTime = NoNum

\* C21: a root Page.frameNavigated that creates a page for a loader id without
\* a recorded originating request appends exactly one synthetic GET entry of
\* the new page, built from the Network.responseReceived for the loader id
\* when one is among the first 10 messages of the input (the page then takes
\* the response's requestTime as its timestamp) and from the navigation payload
\* otherwise; with a recorded originating request no synthetic entry is
\* appended and the page takes the request's timestamp
C21_RootNavigationRecovery == [][C21_Step]_vars

\* a page was just created from a response among the first 10 messages, whose
\* requestTime it has as its timestamp, with one synthetic entry
C21_Witness ==
    /\ pos = 2 /\ Len(pages) = 1 /\ Len(entries) = 1
    /\ messages[1].method = "Page.frameNavigated"
    /\ EarlyResponse("A") # 0
    /\ entries[1]._requestId = "A" /\ entries[1].request.method = "GET"
    /\ entries[1].__requestWillBeSentTime = 10000
    /\ pages[1].__timestamp = 10000

-----------------------------------------------------------------------------
(* Pages without a root frame id *)

\* a same-document navigation that names no frame, root navigations of two
\* loaders, and a request of loader "A"
RootlessAlphabet ==
    { NavigatedWithinDocumentMsg(Undef, HttpA),
      FrameNavigatedMsg("F1", Undef, "A", HttpA),
      FrameNavigatedMsg("F2", Undef, "B", HttpB),
      RequestWillBeSentMsg("R", "A", "F1", HttpA, "GET", "other", HttpA, None, 1) }

InitRootless == InitWith(Streams(RootlessAlphabet, MaxLen), OptionSets)

NextRootless ==
    \/ FrameNavigated
    \/ NavigatedWithinDocument
    \/ RequestWillBeSent
    \/ Finalize

SpecRootless == InitRootless /\ [][NextRootless]_vars

\* the positions of the pages without a root frame id
RootlessPages == {i \in 1..Len(pages) : pages[i].__frameId = Undef}

C22_Step ==
    (CreatesPage /\ RootlessPages # {}) =>
        pages'[Least(RootlessPages)].__frameId = "removed"

\* C22: a root Page.frameNavigated that creates a page while an earlier page
\* without a root frame id exists marks that earlier page superseded: its
\* internal frame id becomes "removed"
C22_RootlessPageSuperseded == [][C22_Step]_vars

-----------------------------------------------------------------------------
(* Ignored requests *)

\* request "X" over http and then, with the same id, over ftp; a root
\* navigation; and the events that name "X": served from cache, response,
\* data, priority change, request-side extra info, completion and failure
IgnoredAlphabet ==
    { FrameNavigatedMsg("F1", Undef, "L", HttpA),
      RequestWillBeSentMsg("X", "L", "F1", HttpA, "GET", "other", HttpA, None, 1),
      RequestWillBeSentMsg("X", "L", "F1", FtpUrl, "GET", "other", HttpA, None, 2),
      RequestServedFromCacheMsg("X"),
      ResponseReceivedMsg("X", "F1", OkResponse(FtpUrl)),
      DataReceivedMsg("X", 10),
      ResourceChangedPriorityMsg("X", "Low"),
      RequestWillBeSentExtraInfoMsg("X", [headers |-> ExtraRequestHeaders]),
      LoadingFinishedMsg("X", 3, 100),
      LoadingFailedMsg("X", "net::ERR_FAILED", "") }

InitIgnored ==
    InitWith(Streams(IgnoredAlphabet, MaxLen),
             {o \in OptionSets : ~o.includeResourcesFromDiskCache})

NextIgnored ==
    \/ FrameNavigated
    \/ RequestWillBeSent
    \/ RequestServedFromCache
    \/ ResponseReceived
    \/ DataReceived
    \/ ResourceChangedPriority
    \/ RequestWillBeSentExtraInfo
    \/ LoadingFinished
    \/ LoadingFailed
    \/ Finalize

SpecIgnored == InitIgnored /\ [][NextIgnored]_vars

TerminalMethods == {"Network.loadingFinished", "Network.loadingFailed"}

\* the events after the request that are about one request id
FollowUpMethods ==
    {"Network.requestServedFromCache", "Network.responseReceived", "Network.dataReceived",
     "Network.resourceChangedPriority", "Network.requestWillBeSentExtraInfo",
     "Network.responseReceivedExtraInfo"} \cup TerminalMethods

\* the message at the current position is such an event for an ignored id
AtIgnored(methods) ==
    /\ pc = "loop" /\ pos <= Len(messages)
    /\ messages[pos].method \in methods
    /\ messages[pos].params.requestId \in ignoredRequests

C23_Step ==
    /\ AtIgnored(FollowUpMethods) =>
          /\ entries' = entries
          /\ entriesWithoutPage' = entriesWithoutPage
    /\ AtIgnored(TerminalMethods) =>
          messages[pos].params.requestId \notin ignoredRequests'
    /\ AtIgnored(FollowUpMethods \ TerminalMethods) =>
          ignoredRequests' = ignoredRequests

\* C23: while a request id is in the ignored set, every served-from-cache,
\* response, data, priority, extra-info, completion or failure event for the id
\* leaves every entry as it was, and the Network.loadingFinished or
\* Network.loadingFailed for the id takes the id out of the set, with or
\* without a page
C23_IgnoredIdSkippedUntilTerminal == [][C23_Step]_vars

-----------------------------------------------------------------------------
(* Events for a request id without an entry *)

\* a root navigation and request "R" of its loader, and the six events that
\* look an entry up by request id, each for the id "Z" that no request has
UnknownIdAlphabet ==
    { FrameNavigatedMsg("F1", Undef, "A", HttpA),
      RequestWillBeSentMsg("R", "A", "F1", HttpA, "GET", "other", HttpA, None, 1),
      RequestServedFromCacheMsg("Z"),
      ResponseReceivedMsg("Z", "F1", OkResponse(HttpB)),
      DataReceivedMsg("Z", 10),
      LoadingFinishedMsg("Z", 3, 100),
      LoadingFailedMsg("Z", "net::ERR_FAILED", ""),
      ResourceChangedPriorityMsg("Z", "Low") }

InitUnknownId ==
    InitWith(Streams(UnknownIdAlphabet, MaxLen),
             {o \in OptionSets : ~o.includeResourcesFromDiskCache})

NextUnknownId ==
    \/ FrameNavigated
    \/ RequestWillBeSent
    \/ RequestServedFromCache
    \/ ResponseReceived
    \/ DataReceived
    \/ LoadingFinished
    \/ LoadingFailed
    \/ ResourceChangedPriority
    \/ Finalize

SpecUnknownId == InitUnknownId /\ [][NextUnknownId]_vars

\* the handlers that find their entry by request id
LookupMethods ==
    {"Network.requestServedFromCache", "Network.responseReceived", "Network.dataReceived",
     "Network.loadingFinished", "Network.loadingFailed", "Network.resourceChangedPriority"}

\* the current message is one of these events, for a request id that no entry
\* has (a response counts once a page exists)
AtUnknownId ==
    /\ pc = "loop" /\ pos <= Len(messages)
    /\ messages[pos].method \in LookupMethods
    /\ messages[pos].method = "Network.responseReceived" => Len(pages) >= 1
    /\ \A i \in 1..Len(entries) : entries[i]._requestId # messages[pos].params.requestId
    /\ \A i \in 1..Len(entriesWithoutPage) :
          entriesWithoutPage[i]._requestId # messages[pos].params.requestId

C24_Step ==
    AtUnknownId =>
        /\ pages' = pages
        /\ entries' = entries
        /\ entriesWithoutPage' = entriesWithoutPage
        /\ pos' = pos + 1 /\ pc' = "loop"

\* C24: a served-from-cache, response (once a page exists), data, completion,
\* failure or priority event for a request id that no entry has is skipped:
\* the pages and every entry are as before and the loop goes on to the next
\* message
C24_UnknownIdEventSkipped == [][C24_Step]_vars

\* a page and the entry of "R" exist and a priority change, then a response,
\* for the unknown id "Z" have been passed over
C24_Witness ==
    /\ pc = "loop" /\ pos = 5 /\ Len(messages) = 4
    /\ messages[3].method = "Network.resourceChangedPriority"
    /\ messages[4].method = "Network.responseReceived"
    /\ Len(pages) = 1
    /\ \E i \in 1..Len(entries) : entries[i]._requestId = "R"
    /\ \A i \in 1..Len(entries) :
          entries[i]._requestId # "Z" /\ IsNone(entries[i].response)

-----------------------------------------------------------------------------
(* Fatal errors *)

\* a response payload without its headers object
MalformedResponse(url) ==
    [url |-> url, status |-> 200, timing |-> Timing(1, 5), fromCache |-> Undef]

\* a root navigation of loader "A", request "R" with a well-formed and with a
\* malformed response, and a response for the loader id without timing
FatalAlphabet ==
    { FrameNavigatedMsg("F1", Undef, "A", HttpA),
      RequestWillBeSentMsg("R", "A", "F1", HttpA, "GET", "other", HttpA, None, 1),
      ResponseReceivedMsg("R", "F1", OkResponse(HttpA)),
      ResponseReceivedMsg("R", "F1", MalformedResponse(HttpA)),
      ResponseReceivedMsg("A", "F1", UntimedResponse(HttpA)) }

InitFatal == InitWith(Streams(FatalAlphabet, MaxLen), OptionSets)

NextFatal ==
    \/ FrameNavigated
    \/ RequestWillBeSent
    \/ ResponseReceived
    \/ Finalize

SpecFatal == InitFatal /\ [][NextFatal]_vars

\* the current message is a Network.responseReceived that the handler passes
\* to the populator, and the populator raises on its payload
PopulatorRaisesHere ==
    /\ pos <= Len(messages)
    /\ messages[pos].method = "Network.responseReceived"
    /\ Len(pages) >= 1
    /\ \E i \in 1..Len(entries) : entries[i]._requestId = messages[pos].params.requestId
    /\ ~Has(messages[pos].params.response, "headers")

\* an aborted run has no report, and it was aborted by the populator at a
\* Network.responseReceived
C25_OnlyError ==
    pc = "thrown" => (report = None /\ PopulatorRaisesHere)

\* the populator's error ends the run at once, and nothing happens after it
C25_Fatal ==
    /\ (pc = "loop" /\ PopulatorRaisesHere) => (pc' = "thrown" /\ pos' = pos)
    /\ pc = "thrown" => UNCHANGED vars

\* C25: an error of the response populator at a Network.responseReceived is
\* re-raised out of harFromMessages, with no report and no later event
\* processed, and a run ends in an error in no other way
C25_PopulatorErrorIsTheOnlyError == [](C25_OnlyError) /\ [][C25_Fatal]_vars

-----------------------------------------------------------------------------
(* Termination *)

\* attachments among three frames, with a frame attached to itself and with
\* pairs that close a cycle
CycleAlphabet ==
    { FrameAttachedMsg("F2", "F1"), FrameAttachedMsg("F3", "F2"),
      FrameAttachedMsg("F1", "F3"), FrameAttachedMsg("F1", "F2"),
      FrameAttachedMsg("F1", "F1") }

InitCycle == InitWith(Streams(CycleAlphabet, MaxLen), OptionSets)

NextCycle ==
    \/ FrameAttached
    \/ CompressFrame
    \/ Finalize

\* the program keeps running: a step that can be taken is taken
SpecCycle == InitCycle /\ [][NextCycle]_vars /\ WF_vars(NextCycle)

\* C26: harFromMessages terminates on every finite input: the run returns its
\* report or ends in an error, also when Page.frameAttached events attach a
\* frame to itself or close a cycle of parents
C26_Terminates == <>(pc \in {"done", "thrown"})

-----------------------------------------------------------------------------
(* The input *)

\* C27: harFromMessages leaves its input unchanged: no step of a run changes
\* the method or a params field of a message, in particular the loaderId and
\* the frameId of a Network.requestWillBeSent
C27_InputUnchanged == [][messages' = messages]_vars


-----------------------------------------------------------------------------
(* Request identifiers of the attached entries *)

\* C28: in every reachable state no two entries of the attached entry list
\* have the same _requestId, so a lookup by request id has at most one
\* candidate entry
C28_RequestIdsDistinct ==
    \A i, j \in 1..Len(entries) :
        entries[i]._requestId = entries[j]._requestId => i = j


-----------------------------------------------------------------------------
(* The time base of a page when an entry's start time is computed *)

\* the next step is a Network.requestWillBeSent that reaches lines 365-372:
\* a supported protocol, a page to attach to, no error before the push
StartTimeComputedHere ==
    /\ At("Network.requestWillBeSent")
    /\ isSupportedProtocol(messages[pos].params.request.url)
    /\ Len(pages) > 0
    /\ ~RedirectThrows(entries, messages[pos].params)

\* the page as line 371 reads it, after addFromFirstRequest of line 368
PageAtStartTime == addFromFirstRequest(pages[Len(pages)], messages[pos].params)

\* C29: whenever a Network.requestWillBeSent is attached to a page and its
\* start time is computed as page wall time + (event timestamp - page
\* timestamp), the page's __wallTime and __timestamp are both defined,
\* whichever way the page was created (default wallTimeHelper)
C29_TimeBaseDefined ==
    StartTimeComputedHere =>
        /\ PageAtStartTime.__wallTime # NoNum
        /\ PageAtStartTime.__timestamp # NoNum

=============================================================================
